---- MODULE Spec2Model ----
(***************************************************************************)
(* Model of the order path of kalshi_bot: RiskManager (risk.py) gating     *)
(* each OrderIntent and Executor.execute (execution.py) turning the        *)
(* approved ones into paper acknowledgements or live limit orders.         *)
(*                                                                         *)
(* Python strings are modelled as sequences of pieces (an f-string is the  *)
(* concatenation of its literal and formatted pieces); None is the empty   *)
(* sequence and the empty string is the one-piece sequence <<"">>.         *)
(* Python objects are records, an attribute read of a missing field        *)
(* raises AttributeError.                                                  *)
(***************************************************************************)
EXTENDS Integers, Sequences, FiniteSets, TLC

VARIABLES
    paper,          \* Executor.paper
    has_db,         \* Executor.db is not None
    has_monitoring, \* Executor.monitoring is not None
    exch_positions, \* the exchange's position entries of the market
    pc,             \* position of the current Executor.execute call
    calls,          \* number of execute calls started
    intents,        \* argument of the current execute call
    i,              \* index of the intent the for-loop is processing
    results,        \* the local list `results` of execute
    gated,          \* indexes handed to RiskManager.approve, in order
    lookups,        \* per gated intent, number of get_positions calls
    last_resp,      \* the latest get_positions response
    verdicts,       \* per gated intent, what approve returned or raised
    sent,           \* create_limit_order calls of the current execute call
    sent_prev,      \* create_limit_order calls of earlier execute calls
    result_idx,     \* per element of results, the loop index that appended it
    db_last,        \* status of the row db.save_order wrote last, or None
    alert_last      \* level monitoring.send_alert was last called with, or None

VARIABLES
    fee_args,       \* keyword arguments of a kalshi_fee_dollars call
    fee_result      \* what the call returned, or None before it returns

VARIABLES
    orderbook_json, \* argument of a best_prices_from_orderbook call
    best            \* the BestPrices it returned, or None before it returns

VARIABLES
    strategy,       \* class of the strategy object generate is called on
    cfg,            \* its configuration, fair-probability source and order_count
    snaps,          \* argument of the generate call
    gen_pc,         \* position of the generate call
    gen_i,          \* index of the snapshot the for-loop is processing
    gen_intents,    \* the local list `intents` of generate
    gen_from,       \* per element of gen_intents, the loop index that appended it
    gen_cands,      \* the candidates evaluated so far, with their locals
    gen_error       \* the exception generate raised, or None

VARIABLES
    per_second,     \* RateLimiter.per_second
    rl_tokens,      \* RateLimiter._tokens
    rl_elapsed,     \* time.monotonic() - RateLimiter._last
    rl_pc,          \* position of the caller of acquire
    rl_grants       \* how long ago acquire returned, oldest return first

VARIABLES
    http_signer,    \* KalshiHTTPClient.signer
    http_call,      \* arguments of the running KalshiHTTPClient.request call
    http_pc,        \* position of that call
    http_events,    \* what the call has done so far: acquisitions and requests
    http_prev,      \* the HTTP request issued by the previous call
    http_result     \* what the call returned or raised

VARIABLES
    live_cache,     \* LiveDataWinProbProvider._cache
    live_hints,     \* LiveDataWinProbProvider._name_hints
    live_pc,        \* position of the running get_fair_prob_yes call
    live_ticker,    \* its argument
    live_event,     \* the local event_ticker of _ensure_milestone
    live_log,       \* the API calls and cache stores of the provider, in order
    live_result     \* what the call returned or raised

VARIABLES
    ms_strategies,  \* MultiStrategyManager.strategies
    ms_enabled,     \* MultiStrategyManager.enabled_strategies
    ms_pc,          \* position of the running generate call
    ms_i,           \* index of the strategy the for-loop is processing
    ms_all,         \* the local list all_intents of generate
    ms_log,         \* per strategy processed, what logger was called with
    ms_result       \* what generate returned or raised

VARIABLES
    bot_state,      \* the dashboard's bot_state: running and paper_mode
    bot_components, \* the dashboard's bot_components, None while empty
    bot_thread,     \* the dashboard's bot_thread: index of the latest thread
    loops,          \* every bot_loop thread created so far
    web_response    \* status of the latest /api/start or /api/stop response

executor_vars ==
    <<paper, has_db, has_monitoring, exch_positions, pc, calls, intents,
      i, results, gated, lookups, last_resp, verdicts, sent, sent_prev, result_idx,
      db_last, alert_last>>

fee_vars == <<fee_args, fee_result>>

book_vars == <<orderbook_json, best>>

strategy_vars ==
    <<strategy, cfg, snaps, gen_pc, gen_i, gen_intents, gen_from, gen_cands,
      gen_error>>

limiter_vars == <<per_second, rl_tokens, rl_elapsed, rl_pc, rl_grants>>

http_vars ==
    <<http_signer, http_call, http_pc, http_events, http_prev, http_result>>

\* The components modelled after the rate limiter.
live_vars ==
    <<live_cache, live_hints, live_pc, live_ticker, live_event, live_log,
      live_result>>

multi_vars ==
    <<ms_strategies, ms_enabled, ms_pc, ms_i, ms_all, ms_log, ms_result>>

web_vars == <<bot_state, bot_components, bot_thread, loops, web_response>>

later_vars == <<http_vars, live_vars, multi_vars, web_vars>>

\* What the HTTP client, the live-data provider, the multi-strategy manager
\* and the dashboard each never touch among these.
not_http_vars == <<live_vars, multi_vars, web_vars>>

not_live_vars == <<http_vars, multi_vars, web_vars>>

not_multi_vars == <<http_vars, live_vars, web_vars>>

not_web_vars == <<http_vars, live_vars, multi_vars>>

\* What Executor.execute never touches.
non_executor_vars ==
    <<fee_vars, book_vars, strategy_vars, limiter_vars, later_vars>>

vars == <<executor_vars, non_executor_vars>>

-----------------------------------------------------------------------------
(* Bounds *)

max_order_count == 2
max_position_per_ticker == 3
MaxIntents == 2
MaxCalls == 2

-----------------------------------------------------------------------------
(* Python values *)

None == <<>>
EmptyStr == <<"">>

Truthy(s) == s # None /\ s # EmptyStr

Str(n) ==
    IF n < 0 THEN <<"-", <<"0", "1", "2", "3", "4", "5", "6", "7", "8", "9",
                         "10", "11", "12", "13", "14", "15", "16">>[1 - n]>>
    ELSE <<<<"0", "1", "2", "3", "4", "5", "6", "7", "8", "9",
             "10", "11", "12", "13", "14", "15", "16">>[n + 1]>>

HasAttr(obj, name) == name \in DOMAIN obj

Abs(n) == IF n < 0 THEN -n ELSE n

RECURSIVE SumSeq(_)
SumSeq(s) == IF s = <<>> THEN 0 ELSE Head(s) + SumSeq(Tail(s))

Lower(piece) ==
    CASE piece = "Authentication" -> "authentication"
      [] piece = "NOT_FOUND" -> "not_found"
      [] piece = "Unauthorized" -> "unauthorized"
      [] piece = "GET" -> "get"
      [] piece = "Lakers" -> "lakers"
      [] piece = "Celtics" -> "celtics"
      [] OTHER -> piece

LowerStr(s) == [k \in 1..Len(s) |-> Lower(s[k])]

Contains(sub, s) == \E k \in 1..Len(s) : s[k] = sub

-----------------------------------------------------------------------------
(* models.py: OrderIntent *)

OrderIntent(side, action, count, price_cents, client_order_id) ==
    [ticker |-> "MKT", side |-> side, action |-> action, count |-> count,
     price_cents |-> price_cents, client_order_id |-> client_order_id]

\* An intent object that also carries the two attributes execute reads.
WithOrderFlags(it, post_only) ==
    [ticker |-> it.ticker, side |-> it.side, action |-> it.action,
     count |-> it.count, price_cents |-> it.price_cents,
     client_order_id |-> it.client_order_id,
     post_only |-> post_only, reduce_only |-> FALSE]

Counts == 0..(max_order_count + 1)
Prices == {0, 1, 99, 100}
Sides == {"yes", "no", "maybe"}
Actions == {"buy", "sell", "hold"}
ClientOrderIds == {None, EmptyStr, <<"k1">>}

\* Calls with a single intent: every combination of the fields the gate
\* looks at, and every combination of key and order flags.
KeyedIntents ==
    { OrderIntent("no", "sell", 1, 99, k) : k \in ClientOrderIds }
    \cup { WithOrderFlags(OrderIntent("no", "sell", 1, 99, k), f) :
              k \in ClientOrderIds, f \in BOOLEAN }

WideIntents ==
    { OrderIntent(s, a, c, p, None) :
        s \in Sides, a \in Actions, c \in Counts, p \in Prices }
    \cup KeyedIntents

\* Intents of calls with several intents: one the gate rejects, one as
\* models.py builds it, one that also has the order flags.
BatchIntents ==
    { OrderIntent("yes", "buy", 0, 50, None),
      OrderIntent("yes", "buy", 1, 50, None),
      WithOrderFlags(OrderIntent("yes", "buy", 1, 50, <<"k1">>), TRUE) }

RECURSIVE SeqsUpTo(_, _)
SeqsUpTo(S, n) ==
    IF n = 0 THEN {<<>>}
    ELSE LET shorter == SeqsUpTo(S, n - 1)
         IN  shorter \cup { Append(q, e) : q \in shorter, e \in S }

IntentLists ==
    SeqsUpTo(BatchIntents, MaxIntents) \cup { <<it>> : it \in WideIntents }

-----------------------------------------------------------------------------
(* The exchange: positions of the market and responses of get_positions *)

PositionBooks ==
    { <<>>,
      <<[position |-> 0 - max_position_per_ticker]>>,
      <<[position |-> 2], [position |-> -2]>>,
      <<[count |-> 2], [ticker |-> "MKT"]>> }

LookupErrors ==
    { <<"GET", "/portfolio/positions", "failed:", "401", "Unauthorized">>,
      <<"Authentication", "required">>,
      <<"GET", "/portfolio/positions", "failed:", "404", "NOT_FOUND">>,
      <<"GET", "/portfolio/positions", "failed:", "500">> }

PositionsResponses(book) ==
    { [ok |-> TRUE, positions |-> book] }
        \cup { [ok |-> FALSE, error |-> e] : e \in LookupErrors }

AllResponses == UNION { PositionsResponses(book) : book \in PositionBooks }

OrderIds == {<<"ord-1">>}
UuidHex == {<<"bot-", "a1">>, <<"bot-", "b2">>}

-----------------------------------------------------------------------------
(* risk.py: RiskManager *)

EntryPosition(p) ==
    IF HasAttr(p, "position") THEN p.position
    ELSE IF HasAttr(p, "count") THEN p.count ELSE 0

\* A lookup that swallows every failure.
current_position_swallow_all(resp) ==
    IF resp.ok
    THEN [raised |-> FALSE,
          value |-> SumSeq([k \in 1..Len(resp.positions) |->
                               EntryPosition(resp.positions[k])])]
    ELSE [raised |-> FALSE, value |-> 0]

\* A lookup that adds up the sizes of the legs.
current_position_sum_of_abs(resp) ==
    IF resp.ok
    THEN [raised |-> FALSE,
          value |-> SumSeq([k \in 1..Len(resp.positions) |->
                               Abs(EntryPosition(resp.positions[k]))])]
    ELSE LET error_msg == LowerStr(resp.error)
         IN  IF \/ Contains("authentication", error_msg)
                \/ Contains("401", error_msg)
                \/ Contains("not_found", error_msg)
             THEN [raised |-> FALSE, value |-> 0]
             ELSE [raised |-> TRUE, value |-> 0]

current_position(resp) ==
    IF resp.ok
    THEN [raised |-> FALSE,
          value |-> SumSeq([k \in 1..Len(resp.positions) |->
                               EntryPosition(resp.positions[k])])]
    ELSE LET error_msg == LowerStr(resp.error)
         IN  IF \/ Contains("authentication", error_msg)
                \/ Contains("401", error_msg)
                \/ Contains("not_found", error_msg)
             THEN [raised |-> FALSE, value |-> 0]
             ELSE [raised |-> TRUE, value |-> 0]

\* approve, lines 41-44: the checks made before the position lookup.
approve_count(intent) ==
    IF intent.count <= 0 THEN <<"count<=0">>
    ELSE IF intent.count > max_order_count
         THEN <<"count>">> \o Str(max_order_count)
         ELSE None

\* The projected position compared with >= instead of >.
approve_position_off_by_one(intent, pos) ==
    LET projected == Abs(pos) + intent.count
    IN  IF projected >= max_position_per_ticker
        THEN <<"projected_position(">> \o Str(projected) \o <<")>">>
                 \o Str(max_position_per_ticker)
        ELSE IF ~(1 <= intent.price_cents /\ intent.price_cents <= 99)
             THEN <<"price must be 1..99 cents">>
             ELSE IF intent.side \notin {"yes", "no"}
                     \/ intent.action \notin {"buy", "sell"}
                  THEN <<"invalid side/action">>
                  ELSE None

\* The price check made before the position check.
approve_position_price_first(intent, pos) ==
    LET projected == Abs(pos) + intent.count
    IN  IF ~(1 <= intent.price_cents /\ intent.price_cents <= 99)
        THEN <<"price must be 1..99 cents">>
        ELSE IF projected > max_position_per_ticker
             THEN <<"projected_position(">> \o Str(projected) \o <<")>">>
                      \o Str(max_position_per_ticker)
             ELSE IF intent.side \notin {"yes", "no"}
                     \/ intent.action \notin {"buy", "sell"}
                  THEN <<"invalid side/action">>
                  ELSE None

\* approve, lines 47-58: the checks made with the looked-up position.
approve_position(intent, pos) ==
    LET projected == Abs(pos) + intent.count
    IN  IF projected > max_position_per_ticker
        THEN <<"projected_position(">> \o Str(projected) \o <<")>">>
                 \o Str(max_position_per_ticker)
        ELSE IF ~(1 <= intent.price_cents /\ intent.price_cents <= 99)
             THEN <<"price must be 1..99 cents">>
             ELSE IF intent.side \notin {"yes", "no"}
                     \/ intent.action \notin {"buy", "sell"}
                  THEN <<"invalid side/action">>
                  ELSE None

-----------------------------------------------------------------------------
(* kalshi/api.py: KalshiAPI.create_limit_order builds the POST body *)

create_limit_order(ticker, side, action, count, price_cents, client_order_id, post_only, reduce_only) ==
    LET base == [ticker |-> ticker, side |-> side, action |-> action,
                 count |-> count, type |-> "limit", post_only |-> post_only,
                 reduce_only |-> reduce_only]
        keyed == IF Truthy(client_order_id)
                 THEN [f \in DOMAIN base \cup {"client_order_id"} |->
                          IF f = "client_order_id" THEN client_order_id
                          ELSE base[f]]
                 ELSE base
        priced(field) == [f \in DOMAIN keyed \cup {field} |->
                             IF f = field THEN price_cents ELSE keyed[f]]
    IN  IF side = "yes" THEN [raised |-> FALSE, body |-> priced("yes_price")]
        ELSE IF side = "no"
             THEN [raised |-> FALSE, body |-> priced("no_price")]
             ELSE [raised |-> TRUE, body |-> base]

\* What the exchange answers to POST /portfolio/orders.
ApiOutcomes == {"http_error", "order", "no_order_field", "order_null"}

HttpErrorText == <<"POST", "/portfolio/orders", "failed:", "503">>
AttributeErrorText(name) == <<"object has no attribute ", name>>
ValueErrorText == <<"side must be 'yes' or 'no'">>
MetricErrorText == <<"database is locked">>

-----------------------------------------------------------------------------
(* execution.py: Executor.execute *)

ExecutionResult(intent, ok, detail) ==
    [intent |-> intent, ok |-> ok, detail |-> detail]

NoEffect ==
    [results |-> <<>>, db_rows |-> <<>>, alerts |-> <<>>, sent |-> <<>>]

\* _save_order_record: a failing db.save_order is caught and logged.
save_order_record(status, db_ok) ==
    IF has_db /\ db_ok THEN <<status>> ELSE <<>>

\* The loop body without the rejection branch.
branch_after_gate_no_reject(reject, paper_mode) ==
    IF paper_mode THEN "paper" ELSE "live"

\* The loop body without the paper branch.
branch_after_gate_no_paper(reject, paper_mode) ==
    IF Truthy(reject) THEN "reject" ELSE "live"

\* Lines 46-66: which branch the loop body takes after the gate.
branch_after_gate(reject, paper_mode) ==
    IF Truthy(reject) THEN "reject"
    ELSE IF paper_mode THEN "paper" ELSE "live"

\* Lines 47-55.
reject_body(it, reject, db_ok) ==
    [results |-> <<ExecutionResult(it, FALSE, <<"RISK_REJECT: ">> \o reject)>>,
     db_rows |-> save_order_record("rejected", db_ok),
     alerts |-> <<>>, sent |-> <<>>]

\* Lines 58-66.
paper_body(it, db_ok) ==
    [results |-> <<ExecutionResult(it, TRUE, <<"PAPER_OK (no order sent)">>)>>,
     db_rows |-> save_order_record("pending", db_ok),
     alerts |-> <<>>, sent |-> <<>>]

\* The intent's key passed on as it is.
client_id_of_no_fallback(it, generated) == it.client_order_id

\* Line 68.
client_id_of(it, generated) ==
    IF Truthy(it.client_order_id) THEN it.client_order_id ELSE generated

\* Line 80: resp.get("order", {}).get("order_id", "unknown").
order_id_of(api, order_id) ==
    CASE api = "order" -> [raised |-> FALSE, value |-> order_id]
      [] api = "no_order_field" -> [raised |-> FALSE, value |-> <<"unknown">>]
      [] OTHER -> [raised |-> TRUE, value |-> AttributeErrorText("get")]

\* monitoring.py: monitor_order_execution, lines 186-196.  record_metric
\* lets a failure of db.save_performance_metric through; send_alert does
\* not raise.
monitor_order_execution(env) ==
    IF ~env.metric_ok THEN [raised |-> TRUE, alerts |-> <<>>]
    ELSE [raised |-> FALSE,
          alerts |-> IF env.slow THEN <<"warning">> ELSE <<>>]

\* Lines 69-92, the try block.  exc is None when the block completes and
\* the text of the exception otherwise.
try_body(it, idx, env) ==
    LET client_id == client_id_of(it, env.uuid)
    IN  IF ~HasAttr(it, "post_only")
        THEN [eff |-> NoEffect, exc |-> AttributeErrorText("post_only")]
        ELSE IF ~HasAttr(it, "reduce_only")
        THEN [eff |-> NoEffect, exc |-> AttributeErrorText("reduce_only")]
        ELSE
        LET req == create_limit_order(it.ticker, it.side, it.action, it.count,
                                      it.price_cents, client_id,
                                      it.post_only, it.reduce_only)
            call == [idx |-> idx, intent |-> it, body |-> req.body,
                     created |-> env.api # "http_error",
                     order_id |-> IF env.api = "order" THEN env.order_id
                                  ELSE None]
            oid == order_id_of(env.api, env.order_id)
            mon == monitor_order_execution(env)
            sent_result == ExecutionResult(it, TRUE,
                               <<"ORDER_SENT order_id=">> \o oid.value)
            saved == save_order_record("pending", env.db_ok)
        IN  IF req.raised
            THEN [eff |-> NoEffect, exc |-> ValueErrorText]
            ELSE IF env.api = "http_error"
            THEN [eff |-> [NoEffect EXCEPT !.sent = <<call>>],
                  exc |-> HttpErrorText]
            ELSE IF oid.raised
            THEN [eff |-> [NoEffect EXCEPT !.sent = <<call>>],
                  exc |-> oid.value]
            ELSE IF has_monitoring /\ mon.raised
            THEN [eff |-> [results |-> <<sent_result>>, db_rows |-> saved,
                           alerts |-> <<>>, sent |-> <<call>>],
                  exc |-> MetricErrorText]
            ELSE [eff |-> [results |-> <<sent_result>>, db_rows |-> saved,
                           alerts |-> IF has_monitoring THEN mon.alerts
                                      ELSE <<>>,
                           sent |-> <<call>>],
                  exc |-> None]

\* An except block that re-raises.
except_body_reraise(it, e, env) ==
    [results |-> <<ExecutionResult(it, FALSE, <<"EXEC_ERROR: ">> \o e)>>,
     db_rows |-> save_order_record("rejected", env.db_ok),
     alerts |-> IF has_monitoring THEN <<"error">> ELSE <<>>,
     sent |-> <<>>,
     raised |-> TRUE]

\* Lines 94-110, the except block.
except_body(it, e, env) ==
    [results |-> <<ExecutionResult(it, FALSE, <<"EXEC_ERROR: ">> \o e)>>,
     db_rows |-> save_order_record("rejected", env.db_ok),
     alerts |-> IF has_monitoring THEN <<"error">> ELSE <<>>,
     sent |-> <<>>,
     raised |-> FALSE]

\* A live branch that reads the position again before it submits and
\* drops the order when the projected position is over the limit by then.
live_body_rechecks(it, idx, env) ==
    LET now == current_position([ok |-> TRUE, positions |-> exch_positions])
        t == try_body(it, idx, env)
    IN  IF Abs(now.value) + it.count > max_position_per_ticker
        THEN [results |-> <<ExecutionResult(it, FALSE, <<"RISK_REJECT: ">>)>>,
              db_rows |-> save_order_record("rejected", env.db_ok),
              alerts |-> <<>>, sent |-> <<>>, raised |-> FALSE]
        ELSE IF t.exc = None
        THEN [results |-> t.eff.results, db_rows |-> t.eff.db_rows,
              alerts |-> t.eff.alerts, sent |-> t.eff.sent,
              raised |-> FALSE]
        ELSE LET x == except_body(it, t.exc, env)
             IN  [results |-> t.eff.results \o x.results,
                  db_rows |-> t.eff.db_rows \o x.db_rows,
                  alerts |-> t.eff.alerts \o x.alerts,
                  sent |-> t.eff.sent \o x.sent,
                  raised |-> x.raised]

\* Lines 68-110.
live_body(it, idx, env) ==
    LET t == try_body(it, idx, env)
    IN  IF t.exc = None
        THEN [results |-> t.eff.results, db_rows |-> t.eff.db_rows,
              alerts |-> t.eff.alerts, sent |-> t.eff.sent,
              raised |-> FALSE]
        ELSE LET x == except_body(it, t.exc, env)
             IN  [results |-> t.eff.results \o x.results,
                  db_rows |-> t.eff.db_rows \o x.db_rows,
                  alerts |-> t.eff.alerts \o x.alerts,
                  sent |-> t.eff.sent \o x.sent,
                  raised |-> x.raised]

Envs ==
    [api : ApiOutcomes, order_id : OrderIds, uuid : UuidHex,
     db_ok : BOOLEAN, metric_ok : BOOLEAN, slow : BOOLEAN]

Verdict(kind, reason) == [kind |-> kind, reason |-> reason]

\* The loop body has produced eff for intent i: go on with the next intent.
Advance(eff) ==
    /\ results' = results \o eff.results
    /\ result_idx' = result_idx \o [k \in 1..Len(eff.results) |-> i]
    /\ db_last' = IF eff.db_rows = <<>> THEN db_last
                  ELSE <<eff.db_rows[Len(eff.db_rows)]>>
    /\ alert_last' = IF eff.alerts = <<>> THEN alert_last
                     ELSE <<eff.alerts[Len(eff.alerts)]>>
    /\ sent' = sent \o eff.sent
    /\ i' = i + 1

-----------------------------------------------------------------------------
(* Actions *)

\* The other components before anything calls them.
FeesIdle == fee_args = None /\ fee_result = None

BookIdle == orderbook_json = None /\ best = None

StrategyIdle ==
    /\ strategy = "none"
    /\ cfg = None
    /\ snaps = <<>>
    /\ gen_pc = "idle"
    /\ gen_i = 1
    /\ gen_intents = <<>>
    /\ gen_from = <<>>
    /\ gen_cands = <<>>
    /\ gen_error = None

LimiterIdle ==
    /\ per_second = 0
    /\ rl_tokens = 0
    /\ rl_elapsed = 0
    /\ rl_pc = "none"
    /\ rl_grants = <<>>

HttpIdle ==
    /\ http_signer = None
    /\ http_call = None
    /\ http_pc = "none"
    /\ http_events = <<>>
    /\ http_prev = None
    /\ http_result = None

LiveIdle ==
    /\ live_cache = <<>>
    /\ live_hints = <<>>
    /\ live_pc = "none"
    /\ live_ticker = None
    /\ live_event = None
    /\ live_log = <<>>
    /\ live_result = None

MultiIdle ==
    /\ ms_strategies = <<>>
    /\ ms_enabled = <<>>
    /\ ms_pc = "none"
    /\ ms_i = 0
    /\ ms_all = <<>>
    /\ ms_log = <<>>
    /\ ms_result = None

WebIdle ==
    /\ bot_state = None
    /\ bot_components = None
    /\ bot_thread = None
    /\ loops = <<>>
    /\ web_response = None

LaterIdle == HttpIdle /\ LiveIdle /\ MultiIdle /\ WebIdle

NotHttpIdle == LiveIdle /\ MultiIdle /\ WebIdle

NotLiveIdle == HttpIdle /\ MultiIdle /\ WebIdle

NotMultiIdle == HttpIdle /\ LiveIdle /\ WebIdle

NotWebIdle == HttpIdle /\ LiveIdle /\ MultiIdle

Init ==
    /\ paper \in BOOLEAN
    /\ has_db \in BOOLEAN
    /\ has_monitoring = has_db
    /\ exch_positions \in PositionBooks
    /\ pc = "idle"
    /\ calls = 0
    /\ intents = <<>>
    /\ i = 1
    /\ results = <<>>
    /\ result_idx = <<>>
    /\ gated = <<>>
    /\ lookups = <<>>
    /\ last_resp = [ok |-> TRUE, positions |-> <<>>]
    /\ verdicts = <<>>
    /\ sent = <<>>
    /\ sent_prev = {}
    /\ db_last = None
    /\ alert_last = None
    /\ FeesIdle /\ BookIdle /\ StrategyIdle /\ LimiterIdle /\ LaterIdle

\* The outer loop calls exe.execute(intents).
Start(its) ==
    /\ calls' = calls + 1
    /\ intents' = its
    /\ i' = 1
    /\ results' = <<>>
    /\ result_idx' = <<>>
    /\ gated' = <<>>
    /\ lookups' = <<>>
    /\ verdicts' = <<>>
    /\ sent' = <<>>
    /\ sent_prev' = sent_prev \cup { [intent |-> sent[k].intent,
                                      body |-> sent[k].body] :
                                       k \in 1..Len(sent) }
    /\ pc' = "loop"
    /\ UNCHANGED <<paper, has_db, has_monitoring, exch_positions, db_last,
                   alert_last, last_resp>>
    /\ UNCHANGED non_executor_vars

Execute(its) ==
    /\ pc = "idle"
    /\ Start(its)

\* The outer caller passes the same intents to execute again.
Retry ==
    /\ pc \in {"returned", "raised"}
    /\ calls < MaxCalls
    /\ Start(intents)

\* risk.approve up to the position lookup (risk.py lines 41-46), and the
\* rejection branch of execute when a count check fails.
ApproveCount(db_ok) ==
    /\ pc = "loop"
    /\ i <= Len(intents)
    /\ LET it == intents[i]
           reject == approve_count(it)
       IN  /\ gated' = Append(gated, i)
           /\ lookups' = Append(lookups, 0)
           /\ IF Truthy(reject)
              THEN /\ verdicts' = Append(verdicts, Verdict("rejected", reject))
                   /\ Advance(reject_body(it, reject, db_ok))
                   /\ pc' = "loop"
              ELSE /\ pc' = "lookup"
                   /\ UNCHANGED <<verdicts, results, result_idx, db_last,
                                  alert_last, sent, i>>
    /\ UNCHANGED <<paper, has_db, has_monitoring, exch_positions, calls,
                   intents, sent_prev, last_resp>>
    /\ UNCHANGED non_executor_vars

\* get_positions answers; approve finishes (risk.py lines 46-58) and execute
\* takes the rejection, the paper or the live branch.
Lookup(resp, db_ok) ==
    /\ pc = "lookup"
    /\ resp \in PositionsResponses(exch_positions)
    /\ LET it == intents[i]
           pos == current_position(resp)
           reject == approve_position(it, pos.value)
           branch == branch_after_gate(reject, paper)
       IN  /\ lookups' = [lookups EXCEPT ![Len(lookups)] = @ + 1]
           /\ last_resp' = resp
           /\ IF pos.raised
              THEN /\ verdicts' = Append(verdicts, Verdict("raised", resp.error))
                   /\ pc' = "raised"
                   /\ UNCHANGED <<results, result_idx, db_last, alert_last,
                                  sent, i>>
              ELSE /\ verdicts' = Append(verdicts,
                          IF Truthy(reject) THEN Verdict("rejected", reject)
                          ELSE Verdict("approved", None))
                   /\ CASE branch = "reject" ->
                             /\ Advance(reject_body(it, reject, db_ok))
                             /\ pc' = "loop"
                        [] branch = "paper" ->
                             /\ Advance(paper_body(it, db_ok))
                             /\ pc' = "loop"
                        [] OTHER ->
                             /\ pc' = "live"
                             /\ UNCHANGED <<results, result_idx, db_last,
                                            alert_last, sent, i>>
    /\ UNCHANGED <<paper, has_db, has_monitoring, exch_positions, calls,
                   intents, gated, sent_prev>>
    /\ UNCHANGED non_executor_vars

\* The live branch: create_limit_order is called and answered.
LiveOrder(env) ==
    /\ pc = "live"
    /\ LET eff == live_body(intents[i], i, env)
       IN  /\ Advance(eff)
           /\ pc' = IF eff.raised THEN "raised" ELSE "loop"
    /\ UNCHANGED <<paper, has_db, has_monitoring, exch_positions, calls,
                   intents, gated, lookups, last_resp, verdicts, sent_prev>>
    /\ UNCHANGED non_executor_vars

\* Line 112: return results.
Return ==
    /\ pc = "loop"
    /\ i > Len(intents)
    /\ pc' = "returned"
    /\ UNCHANGED <<paper, has_db, has_monitoring, exch_positions, calls,
                   intents, i, results, result_idx, gated, lookups, last_resp,
                   verdicts, sent, sent_prev, db_last, alert_last>>
    /\ UNCHANGED non_executor_vars

\* Somebody else trades the market on the same account.
ExternalTrade(book) ==
    /\ book # exch_positions
    /\ exch_positions' = book
    /\ UNCHANGED <<paper, has_db, has_monitoring, pc, calls, intents, i,
                   results, result_idx, gated, lookups, last_resp, verdicts,
                   sent, sent_prev, db_last, alert_last>>
    /\ UNCHANGED non_executor_vars

Next ==
    \/ \E its \in IntentLists : Execute(its)
    \/ \E db_ok \in BOOLEAN : ApproveCount(db_ok)
    \/ \E resp \in AllResponses, db_ok \in BOOLEAN : Lookup(resp, db_ok)
    \/ \E env \in Envs : LiveOrder(env)
    \/ Return
    \/ \E book \in PositionBooks : ExternalTrade(book)

Spec == Init /\ [][Next]_vars

\* The outer caller executes one intent and retries it.
NextRetry ==
    \/ \E it \in KeyedIntents : Execute(<<it>>)
    \/ Retry
    \/ \E db_ok \in BOOLEAN : ApproveCount(db_ok)
    \/ \E resp \in AllResponses, db_ok \in BOOLEAN : Lookup(resp, db_ok)
    \/ \E env \in Envs : LiveOrder(env)
    \/ Return
    \/ \E book \in PositionBooks : ExternalTrade(book)

SpecRetry == Init /\ [][NextRetry]_vars

-----------------------------------------------------------------------------
(* Properties of Executor.execute *)

\* The results the loop appended while processing intent k.
ResultsOf(k) ==
    { results[r] : r \in { q \in 1..Len(results) : result_idx[q] = k } }

DetailKind(res) == Head(res.detail)

ApprovedAt(k) == k \in 1..Len(verdicts) /\ verdicts[k].kind = "approved"
RejectedAt(k) == k \in 1..Len(verdicts) /\ verdicts[k].kind = "rejected"

\* Intent k has been through the loop body.
Processed(k) == k \in 1..Len(verdicts) /\ (k < i \/ pc = "returned")

SentFor(k) == { q \in 1..Len(sent) : sent[q].idx = k }

C2_RejectedNeverSubmitted ==
    /\ \A k \in 1..Len(verdicts) :
           RejectedAt(k) =>
               /\ SentFor(k) = {}
               /\ Truthy(verdicts[k].reason)
               /\ ResultsOf(k) =
                      { [intent |-> intents[k], ok |-> FALSE,
                         detail |-> <<"RISK_REJECT: ">> \o verdicts[k].reason] }
               /\ (pc = "raised" => k < Len(verdicts))
    /\ \A q \in 1..Len(sent) : ApprovedAt(sent[q].idx)

C2_Witness ==
    /\ ~paper
    /\ \E k \in 1..Len(verdicts) :
           /\ RejectedAt(k)
           /\ lookups[k] = 1
    /\ \E q \in 1..Len(sent) : sent[q].created

\* C3: in paper mode no order is ever submitted, and every intent the gate
\* approved gets exactly the outcome (ok = true, PAPER_OK).
C3_PaperNeverSubmits ==
    paper =>
        /\ sent = <<>>
        /\ sent_prev = {}
        /\ pc # "live"
        /\ \A k \in 1..Len(verdicts) :
               ApprovedAt(k) =>
                   ResultsOf(k) =
                       { [intent |-> intents[k], ok |-> TRUE,
                          detail |-> <<"PAPER_OK (no order sent)">>] }

C3_Witness ==
    /\ paper
    /\ pc = "returned"
    /\ Len(intents) = MaxIntents
    /\ \A k \in 1..Len(intents) : ApprovedAt(k)

C5_FailureDoesNotAbortBatch ==
    /\ \A q \in 1..Len(sent) :
           ~sent[q].created =>
               /\ [intent |-> intents[sent[q].idx], ok |-> FALSE,
                   detail |-> <<"EXEC_ERROR: ">> \o HttpErrorText]
                      \in ResultsOf(sent[q].idx)
               /\ sent[q].idx < i
    /\ pc = "raised" =>
           /\ verdicts # <<>>
           /\ verdicts[Len(verdicts)].kind = "raised"
    /\ gated = [k \in 1..Len(gated) |-> k]
    /\ pc = "returned" => Len(gated) = Len(intents)
    /\ \A k \in 1..Len(verdicts) :
           (ApprovedAt(k) /\ Processed(k)) =>
               \E res \in ResultsOf(k) :
                   DetailKind(res) \in {"PAPER_OK (no order sent)",
                                        "ORDER_SENT order_id=",
                                        "EXEC_ERROR: "}

C5_Witness ==
    /\ pc = "returned"
    /\ \E q1, q2 \in 1..Len(sent) :
           /\ sent[q1].idx < sent[q2].idx
           /\ ~sent[q1].created
           /\ sent[q2].created

\* C6: every create_limit_order call carries a non-empty client_order_id:
\* the intent's own key when it has one, a generated key otherwise.
C6_EverySubmissionCarriesKey ==
    \A q \in 1..Len(sent) :
        LET body == sent[q].body
            own == intents[sent[q].idx].client_order_id
        IN  /\ HasAttr(body, "client_order_id")
            /\ body.client_order_id \notin {None, EmptyStr}
            /\ own \notin {None, EmptyStr} => body.client_order_id = own
            /\ own \in {None, EmptyStr} => body.client_order_id \in UuidHex

C6_Witness ==
    \E q \in 1..Len(sent) :
        /\ intents[sent[q].idx].client_order_id = None
        /\ sent[q].created

-----------------------------------------------------------------------------
(* Properties of RiskManager.approve *)

\* The position the gate works with after the latest lookup.
LookedUpPosition ==
    IF last_resp.ok
    THEN SumSeq([k \in 1..Len(last_resp.positions) |->
                    IF "position" \in DOMAIN last_resp.positions[k]
                    THEN last_resp.positions[k].position
                    ELSE IF "count" \in DOMAIN last_resp.positions[k]
                         THEN last_resp.positions[k].count ELSE 0])
    ELSE 0

CountOk(it) == 1 <= it.count /\ it.count <= max_order_count
PositionOk(it, pos) ==
    (IF pos < 0 THEN -pos ELSE pos) + it.count <= max_position_per_ticker
PriceOk(it) == it.price_cents \in 1..99
SideActionOk(it) == it.side \in {"yes", "no"} /\ it.action \in {"buy", "sell"}

\* The latest verdict, when approve returned one.
LastReturned ==
    /\ verdicts # <<>>
    /\ verdicts[Len(verdicts)].kind # "raised"

\* C8: approve returns no reason if and only if the count, the projected
\* position, the price and the side and action are all within their limits,
\* and a non-empty reason otherwise.
C8_ApproveIffAllChecksPass ==
    LastReturned =>
        LET k == Len(verdicts)
            it == intents[k]
            v == verdicts[k]
            all == /\ CountOk(it)
                   /\ PositionOk(it, LookedUpPosition)
                   /\ PriceOk(it)
                   /\ SideActionOk(it)
        IN  /\ (v.kind = "approved") <=> all
            /\ (v.reason = None) <=> all
            /\ ~all => (v.kind = "rejected" /\ v.reason \notin {None, EmptyStr})

C8_Witness ==
    /\ LastReturned
    /\ verdicts[Len(verdicts)].kind = "approved"
    /\ last_resp.ok
    /\ LookedUpPosition + intents[Len(verdicts)].count = max_position_per_ticker

\* C9: the checks run in the order count, projected position, price,
\* side/action and the reason is that of the first failing one; a failing
\* count check is answered without a position lookup, and a passing one is
\* followed by exactly one lookup.
C9_ChecksInFixedOrder ==
    /\ \A k \in 1..Len(verdicts) :
           IF CountOk(intents[k]) THEN lookups[k] = 1 ELSE lookups[k] = 0
    /\ LastReturned =>
           LET k == Len(verdicts)
               it == intents[k]
               first == Head(verdicts[k].reason \o <<"approved">>)
           IN  first =
                   IF it.count <= 0 THEN "count<=0"
                   ELSE IF it.count > max_order_count THEN "count>"
                   ELSE IF ~PositionOk(it, LookedUpPosition)
                        THEN "projected_position("
                   ELSE IF ~PriceOk(it) THEN "price must be 1..99 cents"
                   ELSE IF ~SideActionOk(it) THEN "invalid side/action"
                   ELSE "approved"

C9_Witness ==
    /\ LastReturned
    /\ LET k == Len(verdicts)
       IN  /\ Head(verdicts[k].reason \o <<"approved">>) = "projected_position("
           /\ ~PriceOk(intents[k])
           /\ ~SideActionOk(intents[k])
           /\ lookups[k] = 1

AuthLikeErrors ==
    { <<"GET", "/portfolio/positions", "failed:", "401", "Unauthorized">>,
      <<"Authentication", "required">>,
      <<"GET", "/portfolio/positions", "failed:", "404", "NOT_FOUND">> }

\* C10: a lookup failing with an authentication, 401 or not_found error
\* counts as position 0 and the other checks go on; any other lookup failure
\* leaves approve as an exception, no verdict and no outcome being produced
\* for the intent.
C10_LookupFailureHandling ==
    (verdicts # <<>> /\ lookups[Len(verdicts)] = 1 /\ ~last_resp.ok) =>
        LET k == Len(verdicts)
            it == intents[k]
            v == verdicts[k]
        IN  IF last_resp.error \in AuthLikeErrors
            THEN /\ v.kind # "raised"
                 /\ (v.kind = "approved") <=>
                        /\ it.count <= max_position_per_ticker
                        /\ PriceOk(it)
                        /\ SideActionOk(it)
                 /\ (pc = "raised" => k < Len(lookups))
            ELSE /\ v.kind = "raised"
                 /\ pc = "raised"
                 /\ ResultsOf(k) = {}
                 /\ SentFor(k) = {}

C10_Witness ==
    /\ pc = "raised"
    /\ Len(verdicts) = MaxIntents
    /\ ~last_resp.ok
    /\ results # <<>>

-----------------------------------------------------------------------------
(* fees.py                                                                 *)
(*                                                                         *)
(* A dollar amount is carried exactly in two decimal limbs: u units of     *)
(* 1e-8 dollars plus t units of 1e-17 dollars, 0 <= t < 10^9.  A fee rate  *)
(* is bp units of 1e-4 plus fine units of 1e-13, so that rate * P * (1-P)  *)
(* with P in whole cents is an amount without remainder.  The limbs keep   *)
(* the 1e-12 of _round_up_to_cent apart from one cent (1e-2) within        *)
(* 32-bit integers.                                                        *)

FinePerUnit == 1000000000
UnitsPerCent == 1000000
Epsilon == 100000
TakerRateDefault == 700
MakerRateDefault == 175

MaxCount == 3

Min2(a, b) == IF a < b THEN a ELSE b
Max2(a, b) == IF a > b THEN a ELSE b

Amount(u, t) == [u |-> u, t |-> t]
Zero == Amount(0, 0)
Cent == Amount(UnitsPerCent, 0)

AmountLE(x, y) == x.u < y.u \/ (x.u = y.u /\ x.t <= y.t)
AmountLT(x, y) == x.u < y.u \/ (x.u = y.u /\ x.t < y.t)

AmountAdd(x, y) ==
    Amount(x.u + y.u + (x.t + y.t) \div FinePerUnit, (x.t + y.t) % FinePerUnit)

Rate(bp, fine) == [bp |-> bp, fine |-> fine]
ZeroRate == Rate(0, 0)

\* rate * n * 1e-4 for an integer n.
RateTimes(rate, n) ==
    Amount(rate.bp * n + (rate.fine * n) \div FinePerUnit,
           (rate.fine * n) % FinePerUnit)

\* math.floor in place of math.ceil.
round_down_to_cent(dollars) ==
    LET shifted == IF dollars.t >= Epsilon
                   THEN Amount(dollars.u, dollars.t - Epsilon)
                   ELSE Amount(dollars.u - 1,
                               dollars.t - Epsilon + FinePerUnit)
    IN  Amount((shifted.u \div UnitsPerCent) * UnitsPerCent, 0)

\* math.ceil((dollars - 1e-12) * 100.0) / 100.0
round_up_to_cent(dollars) ==
    LET shifted == IF dollars.t >= Epsilon
                   THEN Amount(dollars.u, dollars.t - Epsilon)
                   ELSE Amount(dollars.u - 1,
                               dollars.t - Epsilon + FinePerUnit)
        whole == shifted.u \div UnitsPerCent
        is_whole == shifted.u % UnitsPerCent = 0 /\ shifted.t = 0
        cents == IF is_whole THEN whole ELSE whole + 1
    IN  Amount(cents * UnitsPerCent, 0)

\* Line 28: P = max(0.0, min(0.99, price_cents / 100.0)), in cents.
ClampP(price_cents) == Max2(0, Min2(99, price_cents))

\* Lines 29-33.
RateOf(kind, taker_rate, maker_rate) ==
    IF kind = "taker" THEN taker_rate
    ELSE IF kind = "maker" THEN maker_rate
    ELSE ZeroRate

\* The argument of _round_up_to_cent at line 34.
fee_raw(price_cents, count, kind, taker_rate, maker_rate) ==
    RateTimes(RateOf(kind, taker_rate, maker_rate),
              count * ClampP(price_cents) * (100 - ClampP(price_cents)))

\* kalshi_fee_dollars without the early return of lines 25-26.
kalshi_fee_dollars_no_guard(price_cents, count, kind, taker_rate, maker_rate) ==
    round_up_to_cent(fee_raw(price_cents, count, kind, taker_rate, maker_rate))

kalshi_fee_dollars(price_cents, count, kind, taker_rate, maker_rate) ==
    IF count <= 0 THEN Zero
    ELSE round_up_to_cent(fee_raw(price_cents, count, kind, taker_rate, maker_rate))

\* A whole-cent amount as a number of cents.
Cents(amount) == amount.u \div UnitsPerCent

FeePrices == (0 - 1)..101
FeeCounts == (0 - 1)..MaxCount
FeeKinds == {"taker", "maker", "none", "other"}
\* The defaults, and a taker rate of 0.040000000003.
TakerRates == {Rate(TakerRateDefault, 0), Rate(400, 30)}
MakerRates == {Rate(MakerRateDefault, 0)}

FeeArgs ==
    [price_cents : FeePrices, count : FeeCounts, kind : FeeKinds,
     taker_rate : TakerRates, maker_rate : MakerRates]

FeeOf(a) ==
    kalshi_fee_dollars(a.price_cents, a.count, a.kind, a.taker_rate, a.maker_rate)

RawOf(a) ==
    fee_raw(a.price_cents, a.count, a.kind, a.taker_rate, a.maker_rate)

\* Executor.execute before anything calls it.
ExecutorIdle ==
    /\ paper = TRUE
    /\ has_db = FALSE
    /\ has_monitoring = FALSE
    /\ exch_positions = <<>>
    /\ pc = "idle"
    /\ calls = 0
    /\ intents = <<>>
    /\ i = 1
    /\ results = <<>>
    /\ result_idx = <<>>
    /\ gated = <<>>
    /\ lookups = <<>>
    /\ last_resp = [ok |-> TRUE, positions |-> <<>>]
    /\ verdicts = <<>>
    /\ sent = <<>>
    /\ sent_prev = {}
    /\ db_last = None
    /\ alert_last = None

InitFees ==
    /\ fee_args \in FeeArgs
    /\ fee_result = None
    /\ ExecutorIdle /\ BookIdle /\ StrategyIdle /\ LimiterIdle /\ LaterIdle

\* A caller evaluates kalshi_fee_dollars(**fee_args).
CallFee ==
    /\ fee_result = None
    /\ fee_result' = <<FeeOf(fee_args)>>
    /\ UNCHANGED <<fee_args, executor_vars, book_vars, strategy_vars,
                   limiter_vars, later_vars>>

NextFees == CallFee

SpecFees == InitFees /\ [][NextFees]_vars

\* C17: for every price_cents in 1..99, every count and every fee kind the
\* fee is >= 0, and it is exactly 0 whenever count <= 0 and whenever the
\* kind is 'none'.
C17_FeeNeverNegative ==
    fee_result # None =>
        /\ fee_args.price_cents \in 1..99 => AmountLE(Zero, fee_result[1])
        /\ (fee_args.count <= 0 \/ fee_args.kind = "none") =>
               fee_result[1] = Zero

C17_Witness ==
    /\ fee_result # None
    /\ fee_args.price_cents = 50
    /\ fee_args.count < 0
    /\ fee_args.kind = "taker"
    /\ fee_result[1] = Zero

-----------------------------------------------------------------------------
(* kalshi/api.py: best prices of an order book                             *)
(*                                                                         *)
(* An Optional[int] is None or the one-element sequence of the integer.    *)
(* A JSON object is a record; a key it lacks is a field it lacks.          *)

MaxLevels == 2

Some(n) == <<n>>
Val(x) == x[1]

\* dict.get(key, default)
DictGet(d, key, default) == IF key \in DOMAIN d THEN d[key] ELSE default

\* One side of the book as the exchange sends it: [price, quantity] levels
\* in ascending order of price.
BookPrices == {1, 35, 60, 99}
Ladders ==
    { l \in SeqsUpTo({ <<p, 10>> : p \in BookPrices }, MaxLevels) :
        \A k \in 1..(Len(l) - 1) : l[k][1] < l[k + 1][1] }

OrderbookJsons ==
    { [orderbook |-> [yes |-> y, no |-> n]] : y \in Ladders, n \in Ladders }
    \cup { [orderbook |-> [yes |-> y]] : y \in Ladders }
    \cup { [orderbook |-> [no |-> n]] : n \in Ladders }
    \cup { [orderbook |-> <<>>], [error |-> <<"not found">>] }

\* The first level instead of the last.
best_bid_first_level(bids) ==
    IF bids = <<>> THEN None ELSE Some(bids[1][1])

\* Lines 9-13: `not bids` holds for an empty list and for null.
best_bid(bids) ==
    IF bids = <<>> THEN None ELSE Some(bids[Len(bids)][1])

BestPrices(yes_bid, yes_ask, no_bid, no_ask) ==
    [yes_bid |-> yes_bid, yes_ask |-> yes_ask,
     no_bid |-> no_bid, no_ask |-> no_ask]

\* Lines 86-97; the subscript of line 87 raises KeyError.
best_prices_from_orderbook(json) ==
    IF "orderbook" \notin DOMAIN json
    THEN [raised |-> TRUE, error |-> <<"KeyError", "orderbook">>]
    ELSE LET ob == json.orderbook
             yes_bid == best_bid(DictGet(ob, "yes", <<>>))
             no_bid == best_bid(DictGet(ob, "no", <<>>))
             yes_ask == IF no_bid # None THEN Some(100 - Val(no_bid)) ELSE None
             no_ask == IF yes_bid # None THEN Some(100 - Val(yes_bid)) ELSE None
         IN  [raised |-> FALSE,
              value |-> BestPrices(yes_bid, yes_ask, no_bid, no_ask)]

InitBook ==
    /\ orderbook_json \in OrderbookJsons
    /\ best = None
    /\ ExecutorIdle /\ FeesIdle /\ StrategyIdle /\ LimiterIdle /\ LaterIdle

\* The polling loop turns the order book it fetched into best prices.
CallBestPrices ==
    /\ best = None
    /\ best' = <<best_prices_from_orderbook(orderbook_json)>>
    /\ UNCHANGED <<orderbook_json, executor_vars, fee_vars, strategy_vars,
                   limiter_vars, later_vars>>

NextBook == CallBestPrices

SpecBook == InitBook /\ [][NextBook]_vars

\* The levels the order book holds for a side.
LevelsOf(side) == DictGet(orderbook_json.orderbook, side, <<>>)

Returned(call) == call # None /\ ~call[1].raised

\* C16: per side the best bid is the price of the last level of the
\* ascending list, which is its highest price, or absent when the list is
\* empty or missing; yes_ask = 100 - no_bid and no_ask = 100 - yes_bid, each
\* ask absent exactly when the bid it is derived from is absent.
C16_BestPricesReciprocal ==
    Returned(best) =>
        LET b == best[1].value
            bid == [side \in {"yes", "no"} |->
                        IF side = "yes" THEN b.yes_bid ELSE b.no_bid]
        IN  /\ \A side \in {"yes", "no"} :
                  /\ (LevelsOf(side) = <<>>) <=> (bid[side] = None)
                  /\ LevelsOf(side) # <<>> =>
                        /\ Val(bid[side]) = LevelsOf(side)[Len(LevelsOf(side))][1]
                        /\ \A k \in 1..Len(LevelsOf(side)) :
                              LevelsOf(side)[k][1] <= Val(bid[side])
            /\ (b.yes_ask = None) <=> (b.no_bid = None)
            /\ (b.no_ask = None) <=> (b.yes_bid = None)
            /\ b.no_bid # None => b.yes_ask = Some(100 - Val(b.no_bid))
            /\ b.yes_bid # None => b.no_ask = Some(100 - Val(b.yes_bid))

\* Two levels of yes bids and no bid on the other side.
C16_Witness ==
    /\ Returned(best)
    /\ Len(LevelsOf("yes")) = 2
    /\ LevelsOf("no") = <<>>
    /\ best[1].value = BestPrices(Some(60), None, None, Some(40))

-----------------------------------------------------------------------------
(* strategy.py: SimpleFairValueStrategy and FeeAwareFairValueStrategy      *)
(*                                                                         *)
(* Probabilities, thresholds and expected values are whole hundredths; a   *)
(* price in cents divided by 100.0 is the same number of hundredths.  The  *)
(* code computes with IEEE-754 doubles: a difference of two such doubles   *)
(* compares with a third as the decimals do, except where the decimals are *)
(* equal.  There the rounding of the subtraction decides; the two tables   *)
(* list the operands, among those of this model, whose double difference   *)
(* falls below the double of the decimal difference                        *)
(* (0.5 - 0.45 = 0.04999999999999999 < 0.05).                              *)

MaxSnaps == 2

FairProbs == {50, 60}
EdgeThresholds == {4, 5}
MinNetEvs == {0, 3}
OrderCounts == {1, 5}

\* <<a, b>>: a/100.0 - b/100.0 < (a - b)/100.0 in doubles, for a in
\* {40, 50, 60} or b in {50, 60} and a - b in EdgeThresholds.
SubRoundsDown == {<<50, 45>>, <<50, 46>>, <<60, 55>>, <<60, 56>>}

\* <<a, b, f>>: (a/100.0 - b/100.0) - f/100.0 < (a - b - f)/100.0 in
\* doubles, for a in {40, 50, 60}, a fee f of 0..2 cents and a - b - f in
\* MinNetEvs.
NetRoundsDown ==
    {<<50, 45, 2>>, <<50, 46, 1>>, <<60, 55, 2>>, <<60, 56, 1>>}

\* a/100.0 - b/100.0 >= c/100.0
FloatSubGE(a, b, c) ==
    IF a - b = c THEN <<a, b>> \notin SubRoundsDown ELSE a - b > c

\* (a/100.0 - b/100.0) - f/100.0 >= m/100.0
FloatNetGE(a, b, f, m) ==
    IF a - b - f = m THEN <<a, b, f>> \notin NetRoundsDown ELSE a - b - f > m

\* {h/100.0:.2f}, {h/100.0:.3f}, {h/100.0:.4f} for h >= 0
Fixed(h, digits) ==
    <<ToString(h \div 100), ".", ToString((h % 100) \div 10), ToString(h % 10)>>
    \o [k \in 1..(digits - 2) |-> "0"]

\* models.py: the __init__ the dataclass decorator generates.
OrderIntentFields ==
    {"ticker", "side", "action", "count", "price_cents", "reason",
     "client_order_id"}

OrderIntentInit(kwargs) ==
    IF DOMAIN kwargs \subseteq OrderIntentFields
    THEN [raised |-> FALSE,
          value |-> [f \in OrderIntentFields |->
                        IF f \in DOMAIN kwargs THEN kwargs[f]
                        ELSE IF f = "reason" THEN EmptyStr ELSE None]]
    ELSE [raised |-> TRUE,
          error |-> <<"TypeError", "unexpected keyword argument",
                      CHOOSE f \in DOMAIN kwargs : f \notin OrderIntentFields>>]

MarketSnapshot(ticker, b) == [ticker |-> ticker, best |-> b]

\* The snapshots of a cycle of several markets: the three of
\* tests/test_strategy.py, one in which both sides are cheap, one of a
\* market without a fair probability and one of an empty book.
CycleSnaps ==
    { MarketSnapshot("MKT", BestPrices(Some(40), Some(45), Some(55), Some(60))),
      MarketSnapshot("ALT", BestPrices(Some(60), Some(65), Some(35), Some(40))),
      MarketSnapshot("ALT", BestPrices(Some(48), Some(52), Some(48), Some(52))),
      MarketSnapshot("MKT", BestPrices(Some(70), Some(40), Some(60), Some(30))),
      MarketSnapshot("UNK", BestPrices(Some(40), Some(45), Some(55), Some(60))),
      MarketSnapshot("MKT", BestPrices(None, None, None, None)) }

\* Single snapshots with every ask and every bid.
WideSnaps ==
    { MarketSnapshot("MKT", BestPrices(None, Some(a), None, None)) : a \in 1..99 }
    \cup { MarketSnapshot("MKT", BestPrices(None, None, None, Some(a))) :
              a \in 1..99 }
    \cup { MarketSnapshot("MKT", BestPrices(Some(b), None, None, Some(100 - b))) :
              b \in 1..99 }
    \cup { MarketSnapshot("MKT", BestPrices(Some(b), None, None, None)) :
              b \in {55, 65} }

SnapLists == SeqsUpTo(CycleSnaps, MaxSnaps) \cup { <<sn>> : sn \in WideSnaps }

FairProbTables ==
    { t \in [{"MKT", "ALT"} -> FairProbs] : t["MKT"] # t["ALT"] }

\* FairValueConfig and the order_count of SimpleFairValueStrategy.
SimpleConfigs ==
    [fair_probs : FairProbTables, edge_threshold : EdgeThresholds,
     order_count : OrderCounts]

\* FeeAwareConfig, the table of the StaticFairProbProvider and order_count.
FeeAwareConfigs ==
    [fair_probs : FairProbTables, edge_threshold : EdgeThresholds,
     fee_kind : {"taker", "maker", "none"},
     taker_fee_rate : {Rate(TakerRateDefault, 0)},
     maker_fee_rate : {Rate(MakerRateDefault, 0)},
     min_net_ev_per_contract : MinNetEvs, post_only : BOOLEAN,
     order_count : OrderCounts]

\* fair_prob.py lines 21-25.
get_fair_prob_yes(fair_probs_yes, ticker) ==
    IF ticker \notin DOMAIN fair_probs_yes THEN None
    ELSE Some(Max2(0, Min2(100, fair_probs_yes[ticker])))

\* fees.py lines 37-55, in hundredths.
net_ev_per_contract(fair_prob_yes, price_cents, fee_kind, taker_rate, maker_rate) ==
    (fair_prob_yes - price_cents)
    - Cents(kalshi_fee_dollars(price_cents, 1, fee_kind, taker_rate, maker_rate))

\* The ask minus one whatever the configuration.
target_px_always_improves(ask_cents, post_only) == ask_cents - 1

\* Lines 101-103.
target_px(ask_cents, post_only) ==
    IF post_only THEN Max2(1, ask_cents - 1) ELSE ask_cents

\* Lines 49-58 and 60-72: what one pass of the loop of
\* SimpleFairValueStrategy.generate hands to OrderIntent, in order.
simple_body(sn, c) ==
    IF sn.ticker \notin DOMAIN c.fair_probs THEN <<>>
    ELSE LET p_fair == c.fair_probs[sn.ticker]
             b == sn.best
             yes == IF b.yes_ask # None
                       /\ FloatSubGE(p_fair, Val(b.yes_ask), c.edge_threshold)
                    THEN <<[ticker |-> sn.ticker, side |-> "yes",
                            action |-> "buy", count |-> c.order_count,
                            price_cents |-> Max2(1, Val(b.yes_ask) - 1),
                            reason |-> <<"fair(">> \o Fixed(p_fair, 2)
                                       \o <<") > ask(">>
                                       \o Fixed(Val(b.yes_ask), 2)
                                       \o <<") + thr">>]>>
                    ELSE <<>>
             no == IF b.yes_bid # None
                      /\ FloatSubGE(Val(b.yes_bid), p_fair, c.edge_threshold)
                      /\ b.no_ask # None
                   THEN <<[ticker |-> sn.ticker, side |-> "no",
                           action |-> "buy", count |-> c.order_count,
                           price_cents |-> Max2(1, Val(b.no_ask) - 1),
                           reason |-> <<"bid_yes(">> \o Fixed(Val(b.yes_bid), 2)
                                      \o <<") > fair(">> \o Fixed(p_fair, 2)
                                      \o <<") + thr">>]>>
                   ELSE <<>>
         IN  yes \o no

\* Lines 127-135 and 153-161: the keyword arguments of the OrderIntent call.
ProposalArgs(ticker, side, p, px, edge, net, c) ==
    [ticker |-> ticker, side |-> side, action |-> "buy",
     count |-> c.order_count, price_cents |-> px,
     post_only |-> c.post_only,
     reason |-> <<IF side = "yes" THEN "YES netEV=" ELSE "NO netEV=">>
                \o Fixed(net, 4) \o <<" edge=">> \o Fixed(edge, 3)
                \o <<IF side = "yes" THEN " fair=" ELSE " fairNO=">>
                \o Fixed(p, 3)]

\* Lines 116-135 and 141-161: one candidate of
\* FeeAwareFairValueStrategy.generate, p the probability of its side: its
\* locals, whether it passes the test of line 125 or 151, and the
\* OrderIntent call made for it if it does.
Candidate(k, ticker, side, p, ask_cents, c) ==
    LET px == target_px(ask_cents, c.post_only)
        edge == p - px
        net == net_ev_per_contract(p, px, c.fee_kind, c.taker_fee_rate,
                                   c.maker_fee_rate)
        qualifies == /\ FloatSubGE(p, px, c.edge_threshold)
                     /\ FloatNetGE(p, px, edge - net,
                                   c.min_net_ev_per_contract)
    IN  [snap |-> k, side |-> side, p |-> p, ask |-> ask_cents, px |-> px,
         edge |-> edge, net |-> net, qualifies |-> qualifies,
         call |-> IF qualifies
                  THEN <<ProposalArgs(ticker, side, p, px, edge, net, c)>>
                  ELSE <<>>]

\* Lines 108-162: one pass of the loop of
\* FeeAwareFairValueStrategy.generate: the candidates it evaluates, the
\* second one only if the first made no OrderIntent call.
fee_aware_body(sn, k, c) ==
    LET p_fair == get_fair_prob_yes(c.fair_probs, sn.ticker)
    IN  IF p_fair = None THEN <<>>
        ELSE LET b == sn.best
                 yes == IF b.yes_ask # None
                        THEN <<Candidate(k, sn.ticker, "yes", Val(p_fair),
                                         Val(b.yes_ask), c)>>
                        ELSE <<>>
                 no == IF b.no_ask # None
                       THEN <<Candidate(k, sn.ticker, "no", 100 - Val(p_fair),
                                        Val(b.no_ask), c)>>
                       ELSE <<>>
             IN  IF yes # <<>> /\ yes[1].qualifies THEN yes ELSE yes \o no

InitStrategy ==
    /\ strategy \in {"simple", "fee_aware"}
    /\ cfg \in IF strategy = "simple" THEN SimpleConfigs ELSE FeeAwareConfigs
    /\ snaps \in SnapLists
    /\ gen_pc = "loop"
    /\ gen_i = 1
    /\ gen_intents = <<>>
    /\ gen_from = <<>>
    /\ gen_cands = <<>>
    /\ gen_error = None
    /\ ExecutorIdle /\ FeesIdle /\ BookIdle /\ LimiterIdle /\ LaterIdle

\* One pass of the for-loop of SimpleFairValueStrategy.generate.
SimpleIteration ==
    /\ strategy = "simple"
    /\ gen_pc = "loop"
    /\ gen_i <= Len(snaps)
    /\ LET calls_made == simple_body(snaps[gen_i], cfg)
       IN  /\ gen_intents' = gen_intents \o
                  [k \in 1..Len(calls_made) |->
                      OrderIntentInit(calls_made[k]).value]
           /\ gen_from' = gen_from \o [k \in 1..Len(calls_made) |-> gen_i]
    /\ gen_i' = gen_i + 1
    /\ UNCHANGED <<strategy, cfg, snaps, gen_pc, gen_cands, gen_error>>
    /\ UNCHANGED <<executor_vars, fee_vars, book_vars, limiter_vars, later_vars>>

\* One pass of the for-loop of FeeAwareFairValueStrategy.generate.
FeeAwareIteration ==
    /\ strategy = "fee_aware"
    /\ gen_pc = "loop"
    /\ gen_i <= Len(snaps)
    /\ LET pass == fee_aware_body(snaps[gen_i], gen_i, cfg)
           call == IF pass = <<>> THEN <<>> ELSE pass[Len(pass)].call
           made == IF call = <<>> THEN [raised |-> FALSE]
                   ELSE OrderIntentInit(call[1])
       IN  /\ gen_cands' = gen_cands \o pass
           /\ IF made.raised
              THEN /\ gen_pc' = "raised"
                   /\ gen_error' = made.error
                   /\ UNCHANGED <<gen_intents, gen_from, gen_i>>
              ELSE /\ gen_intents' = IF call = <<>> THEN gen_intents
                                     ELSE Append(gen_intents, made.value)
                   /\ gen_from' = IF call = <<>> THEN gen_from
                                  ELSE Append(gen_from, gen_i)
                   /\ gen_i' = gen_i + 1
                   /\ UNCHANGED <<gen_pc, gen_error>>
    /\ UNCHANGED <<strategy, cfg, snaps>>
    /\ UNCHANGED <<executor_vars, fee_vars, book_vars, limiter_vars, later_vars>>

\* Lines 73 and 164: return intents.
GenerateReturn ==
    /\ gen_pc = "loop"
    /\ gen_i > Len(snaps)
    /\ gen_pc' = "returned"
    /\ UNCHANGED <<strategy, cfg, snaps, gen_i, gen_intents, gen_from,
                   gen_cands, gen_error>>
    /\ UNCHANGED <<executor_vars, fee_vars, book_vars, limiter_vars, later_vars>>

NextStrategy ==
    \/ SimpleIteration
    \/ FeeAwareIteration
    \/ GenerateReturn

SpecStrategy == InitStrategy /\ [][NextStrategy]_vars

-----------------------------------------------------------------------------
(* Properties of the strategies *)

\* The loop has finished its pass over snapshot k, by going on or by an
\* exception.
GenDone(k) == k < gen_i \/ (gen_pc = "raised" /\ k = gen_i)

RaisedAt(k) == gen_pc = "raised" /\ k = gen_i

IntentsFrom(k) == { q \in 1..Len(gen_intents) : gen_from[q] = k }

Emitted(k, side) == \E q \in IntentsFrom(k) : gen_intents[q].side = side

CandsOf(k, side) ==
    { q \in 1..Len(gen_cands) :
        gen_cands[q].snap = k /\ gen_cands[q].side = side }

CodeQualifies(k, side) == \E q \in CandsOf(k, side) : gen_cands[q].qualifies

FairOf(k) == get_fair_prob_yes(cfg.fair_probs, snaps[k].ticker)

AskOf(k, side) ==
    IF side = "yes" THEN snaps[k].best.yes_ask ELSE snaps[k].best.no_ask

\* The probability of a side, in hundredths.
SideProb(k, side) ==
    IF side = "yes" THEN Val(FairOf(k)) ELSE 100 - Val(FairOf(k))

\* The price the specification proposes for a side of snapshot k.
ClaimedPrice(k, side) ==
    IF cfg.post_only
    THEN (IF Val(AskOf(k, side)) - 1 < 1 THEN 1 ELSE Val(AskOf(k, side)) - 1)
    ELSE Val(AskOf(k, side))

\* The fee of one contract at a price, in cents.
ClaimedFee(px) ==
    Cents(kalshi_fee_dollars(px, 1, cfg.fee_kind, cfg.taker_fee_rate,
                             cfg.maker_fee_rate))

\* A candidate qualifies as the specification defines it, in exact
\* decimal arithmetic.
ClaimedQualifies(k, side) ==
    /\ FairOf(k) # None
    /\ AskOf(k, side) # None
    /\ SideProb(k, side) - ClaimedPrice(k, side) >= cfg.edge_threshold
    /\ SideProb(k, side) - ClaimedPrice(k, side) - ClaimedFee(ClaimedPrice(k, side))
           >= cfg.min_net_ev_per_contract

\* C11: FeeAwareFairValueStrategy.generate emits at most one proposal per
\* snapshot; when the buy-yes candidate qualifies the emitted proposal is
\* buy-yes and buy-no is not evaluated; a buy-no proposal is emitted only
\* when the buy-yes candidate is absent or does not qualify.
C11_AtMostOneProposalYesFirst ==
    strategy = "fee_aware" =>
        \A k \in 1..Len(snaps) :
            GenDone(k) =>
                /\ Cardinality(IntentsFrom(k)) <= 1
                /\ CodeQualifies(k, "yes") =>
                       /\ Emitted(k, "yes")
                       /\ CandsOf(k, "no") = {}
                /\ Emitted(k, "no") => ~CodeQualifies(k, "yes")

\* C12: a candidate of FeeAwareFairValueStrategy qualifies if and only if
\* the fair estimate and its ask are present, its edge at the proposed price
\* is >= edge_threshold and its net EV per contract is >=
\* min_net_ev_per_contract; a market with no fair estimate, or a candidate
\* with no ask, produces no proposal and no error.
C12_QualifiesIffEdgeAndNetEv ==
    strategy = "fee_aware" =>
        \A k \in 1..Len(snaps) :
            GenDone(k) =>
                /\ \A side \in {"yes", "no"} :
                      /\ CandsOf(k, side) # {} =>
                            (CodeQualifies(k, side) <=> ClaimedQualifies(k, side))
                      /\ (FairOf(k) = None \/ AskOf(k, side) = None) =>
                            /\ CandsOf(k, side) = {}
                            /\ ~Emitted(k, side)
                /\ (FairOf(k) = None
                    \/ (AskOf(k, "yes") = None /\ AskOf(k, "no") = None)) =>
                       ~RaisedAt(k)

\* The buy-no side of snapshot k does not qualify, for either strategy.
NoSideOut(k) ==
    IF strategy = "simple"
    THEN \/ snaps[k].best.yes_bid = None
         \/ snaps[k].best.no_ask = None
         \/ Val(snaps[k].best.yes_bid) - Val(FairOf(k)) < cfg.edge_threshold
    ELSE ~ClaimedQualifies(k, "no")

\* C13: with edge_threshold 0.05 and fair probability 0.50, a snapshot with
\* yes_ask = 45 yields a buy-yes proposal (the edge 0.05 meets the
\* threshold) and a snapshot with yes_ask = 46 yields no proposal, the
\* buy-no candidate not qualifying.  The edge is taken at the ask: the
\* simple strategy, and the fee-aware one with maker-only mode off, no fee
\* and no minimum net EV.
C13_BoundaryInclusive ==
    \A k \in 1..Len(snaps) :
        ( /\ GenDone(k)
          /\ FairOf(k) = Some(50)
          /\ cfg.edge_threshold = 5
          /\ snaps[k].best.yes_ask # None
          /\ strategy = "fee_aware" =>
                /\ ~cfg.post_only
                /\ cfg.fee_kind = "none"
                /\ cfg.min_net_ev_per_contract = 0 ) =>
            /\ Val(snaps[k].best.yes_ask) = 45 => Emitted(k, "yes")
            /\ (Val(snaps[k].best.yes_ask) = 46 /\ NoSideOut(k)) =>
                   IntentsFrom(k) = {}

\* C14: the price of a candidate of FeeAwareFairValueStrategy is its side's
\* ask minus 1, never below 1, in maker-only mode and the ask itself
\* otherwise, for both sides; the edge and net EV tests are evaluated at
\* that price, the OrderIntent call carries it, and for an ask in 1..99 it
\* lies in 1..99.
C14_ProposedPrice ==
    strategy = "fee_aware" =>
        \A q \in 1..Len(gen_cands) :
            LET cand == gen_cands[q]
                k == cand.snap
                px == ClaimedPrice(k, cand.side)
            IN  /\ AskOf(k, cand.side) = Some(cand.ask)
                /\ cand.px = px
                /\ cand.edge = SideProb(k, cand.side) - px
                /\ cand.net = cand.edge - ClaimedFee(px)
                /\ cand.qualifies <=>
                       /\ FloatSubGE(SideProb(k, cand.side), px,
                                     cfg.edge_threshold)
                       /\ FloatNetGE(SideProb(k, cand.side), px, ClaimedFee(px),
                                     cfg.min_net_ev_per_contract)
                /\ cand.qualifies <=> cand.call # <<>>
                /\ cand.call # <<>> => cand.call[1].price_cents = px
                /\ cand.ask \in 1..99 => cand.px \in 1..99

\* A buy-no candidate in maker-only mode whose ask of 1 cannot be improved,
\* after a buy-yes candidate that did not qualify.
C14_Witness ==
    /\ strategy = "fee_aware"
    /\ cfg.post_only
    /\ \E q \in 1..Len(gen_cands) :
          /\ gen_cands[q].side = "no"
          /\ gen_cands[q].ask = 1
          /\ gen_cands[q].px = 1
          /\ gen_cands[q].qualifies
          /\ gen_cands[q].call[1].price_cents = 1

\* C15: for each snapshot with a configured fair probability,
\* SimpleFairValueStrategy.generate emits a buy-yes intent iff yes_ask is
\* present and fair - yes_ask/100 >= edge_threshold, a buy-no intent iff
\* yes_bid and no_ask are present and yes_bid/100 - fair >= edge_threshold;
\* every emitted intent has action buy, the snapshot's ticker and count =
\* order_count.
C15_SimpleEmitsIffEdge ==
    strategy = "simple" =>
        \A k \in 1..Len(snaps) :
            GenDone(k) =>
                /\ FairOf(k) = None => IntentsFrom(k) = {}
                /\ FairOf(k) # None =>
                      /\ Emitted(k, "yes") <=>
                            /\ snaps[k].best.yes_ask # None
                            /\ Val(FairOf(k)) - Val(snaps[k].best.yes_ask)
                                   >= cfg.edge_threshold
                      /\ Emitted(k, "no") <=>
                            /\ snaps[k].best.yes_bid # None
                            /\ snaps[k].best.no_ask # None
                            /\ Val(snaps[k].best.yes_bid) - Val(FairOf(k))
                                   >= cfg.edge_threshold
                /\ \A q \in IntentsFrom(k) :
                      /\ gen_intents[q].action = "buy"
                      /\ gen_intents[q].ticker = snaps[k].ticker
                      /\ gen_intents[q].count = cfg.order_count

-----------------------------------------------------------------------------
(* kalshi/http.py: RateLimiter                                             *)
(*                                                                         *)
(* Time is counted in ticks of 1/TicksPerSecond seconds and tokens in      *)
(* units of 1/TokenScale token; per_second is in units per second, so the  *)
(* refill of a whole number of ticks is a whole number of units.  Only     *)
(* differences of time.monotonic() readings reach the limiter: the model   *)
(* keeps the time since _last, and stops counting it once the bucket is    *)
(* full whatever the balance (one second), and the age of every return of  *)
(* acquire within the last Horizon ticks.                                  *)

TicksPerSecond == 2
TokenScale == 4

Horizon == 6

\* 0.5, 1 and 2 requests per second.
Rates == {TokenScale \div 2, TokenScale, 2 * TokenScale}

\* Line 36 without the cap.
refill_uncapped(tokens, elapsed, rate) ==
    tokens + (elapsed * rate) \div TicksPerSecond

\* Line 36: min(self.per_second, self._tokens + elapsed * self.per_second)
refill(tokens, elapsed, rate) ==
    Min2(rate, tokens + (elapsed * rate) \div TicksPerSecond)

\* __post_init__, lines 27-29.
InitLimiter ==
    /\ per_second \in Rates
    /\ rl_tokens = per_second
    /\ rl_elapsed = 0
    /\ rl_pc = "idle"
    /\ rl_grants = <<>>
    /\ ExecutorIdle /\ FeesIdle /\ BookIdle /\ StrategyIdle /\ LaterIdle

\* The ages one tick later; a return older than Horizon is forgotten.
Aged(ages) ==
    LET kept == { k \in 1..Len(ages) : ages[k] + 1 <= Horizon }
        drop == Len(ages) - Cardinality(kept)
    IN  [k \in 1..Cardinality(kept) |-> ages[k + drop] + 1]

\* One tick of time passes.
Tick ==
    /\ rl_elapsed' = Min2(rl_elapsed + 1, TicksPerSecond)
    /\ rl_grants' = Aged(rl_grants)
    /\ UNCHANGED <<per_second, rl_tokens, rl_pc>>
    /\ UNCHANGED <<executor_vars, fee_vars, book_vars, strategy_vars, later_vars>>

\* A request calls acquire() with the default of one token.
CallAcquire ==
    /\ rl_pc = "idle"
    /\ rl_pc' = "loop"
    /\ UNCHANGED <<per_second, rl_tokens, rl_elapsed, rl_grants>>
    /\ UNCHANGED <<executor_vars, fee_vars, book_vars, strategy_vars, later_vars>>

\* Lines 33-42: one pass of the while-loop up to the return or the sleep.
AcquireIteration ==
    /\ rl_pc = "loop"
    /\ rl_elapsed' = 0
    /\ LET filled == refill(rl_tokens, rl_elapsed, per_second)
       IN  IF filled >= TokenScale
           THEN /\ rl_tokens' = filled - TokenScale
                /\ rl_pc' = "idle"
                /\ rl_grants' = Append(rl_grants, 0)
           ELSE /\ rl_tokens' = filled
                /\ rl_pc' = "sleeping"
                /\ UNCHANGED rl_grants
    /\ UNCHANGED per_second
    /\ UNCHANGED <<executor_vars, fee_vars, book_vars, strategy_vars, later_vars>>

\* Line 42: time.sleep returns, after however many ticks have passed.
Wake ==
    /\ rl_pc = "sleeping"
    /\ rl_pc' = "loop"
    /\ UNCHANGED <<per_second, rl_tokens, rl_elapsed, rl_grants>>
    /\ UNCHANGED <<executor_vars, fee_vars, book_vars, strategy_vars, later_vars>>

NextLimiter ==
    \/ Tick
    \/ CallAcquire
    \/ AcquireIteration
    \/ Wake

SpecLimiter == InitLimiter /\ [][NextLimiter]_vars

\* Time advances, the calling thread is scheduled and its sleep ends; the
\* caller is free never to call.
SpecLimiterFair ==
    /\ SpecLimiter
    /\ WF_vars(Tick)
    /\ WF_vars(AcquireIteration)
    /\ WF_vars(Wake)

\* C19: the token balance stays within [0, r], and the number of one-token
\* acquisitions granted in any interval of length T is at most r + r * T.
\* Returns i..j of the log lie in an interval of rl_grants[i] - rl_grants[j]
\* ticks; both sides are multiplied by TokenScale * TicksPerSecond.
C19_BalanceAndRateBound ==
    /\ 0 <= rl_tokens
    /\ rl_tokens <= per_second
    /\ \A a \in 1..Len(rl_grants) :
          \A b \in a..Len(rl_grants) :
              (b - a + 1) * TokenScale * TicksPerSecond
                  <= per_second * TicksPerSecond
                     + per_second * (rl_grants[a] - rl_grants[b])

\* A burst of the whole bucket followed by a refilled token, at 2 per second.
C19_Witness ==
    /\ per_second = 2 * TokenScale
    /\ Len(rl_grants) >= 3
    /\ rl_grants[Len(rl_grants) - 2] - rl_grants[Len(rl_grants)] = 1
    /\ rl_tokens = 0

\* C20: a blocking acquire() of one token eventually returns, for every
\* positive rate, provided time advances.
C20_AcquireEventuallyReturns == (rl_pc = "loop") ~> (rl_pc = "idle")

-----------------------------------------------------------------------------
(* kalshi/auth.py: KalshiSigner; kalshi/http.py: KalshiHTTPClient          *)
(*                                                                         *)
(* A string is a sequence of pieces.  A response of the requests library   *)
(* is its status_code and its text; Response.ok is what the library        *)
(* computes (raise_for_status raises for 400 <= status_code < 600 only).   *)

Upper(piece) ==
    CASE piece = "get" -> "GET"
      [] piece = "post" -> "POST"
      [] piece = "delete" -> "DELETE"
      [] OTHER -> piece

Host == <<"https://demo-api.kalshi.co", "/trade-api/v2">>

ApiKeyId == <<"key-1">>

\* time.time() * 1000 truncated to an integer, at two instants.
Timestamps == {1700000000, 1700000001}

\* The random salt of the PSS padding.
Salts == {"salt-a", "salt-b"}

HttpPaths == {<<"/markets">>, <<"/portfolio", "/orders">>}

HttpParams == {None, <<[limit |-> 100]>>, <<[limit |-> 100, status |-> "open"]>>}

HttpBodies == {<<[ticker |-> "MKT", side |-> "yes", count |-> 1]>>}

\* auth.py line 30, signing the url with its query string instead.
signed_message_with_query(timestamp_ms, method, path, params) ==
    <<ToString(timestamp_ms), Upper(method)>> \o path
        \o (IF params = None THEN <<>> ELSE <<"?", ToString(params[1])>>)

\* auth.py line 30: f"{timestamp_ms}{method.upper()}{path}"
signed_message(timestamp_ms, method, path, params) ==
    <<ToString(timestamp_ms), Upper(method)>> \o path

\* auth.py lines 25-42; the signature is the base64 text of an RSA-PSS
\* signature, determined by the key, the message and the salt.
sign(timestamp_ms, method, path, params, salt) ==
    [base64 |-> "RSA-PSS-SHA256",
     key |-> "private_key_pem",
     message |-> signed_message(timestamp_ms, method, path, params),
     salt |-> salt]

\* http.py lines 53-63; sign receives the path only, params stands for the
\* query string sent on the wire.
headers_of(signer, method, path, params, ts_ms, salt) ==
    IF signer = None
    THEN <<>>
    ELSE <<[key |-> signer,
            timestamp |-> <<ToString(ts_ms)>>,
            signature |-> sign(ts_ms, method, path, params, salt)]>>

\* requests.Response.ok
ResponseOk(resp) == ~(400 <= resp.status_code /\ resp.status_code < 600)

\* requests.Response.json: the parsed body, or raised.
ResponseJson(resp) ==
    CASE resp.text = <<"{}">> -> [raised |-> FALSE, value |-> <<"dict">>]
      [] resp.text = <<"{\"order\": ", "{\"order_id\": \"o1\"}", "}">>
            -> [raised |-> FALSE, value |-> <<"dict", "order", "o1">>]
      [] OTHER -> [raised |-> TRUE, error |-> "JSONDecodeError"]

StatusCodes == {200, 201, 204, 300, 304, 400, 401, 404, 429, 500, 503}

Texts ==
    {<<"{}">>, <<"{\"order\": ", "{\"order_id\": \"o1\"}", "}">>, <<"">>,
     <<"<html>", "Bad Gateway", "</html>">>}

Responses == [status_code : StatusCodes, text : Texts]

KalshiHTTPError(message) == [type |-> "KalshiHTTPError", message |-> message]

\* Lines 99-107: the arguments get, post and delete pass to request.
get(path, params) ==
    [method |-> "GET", path |-> path, params |-> params, json_body |-> None,
     is_write |-> FALSE]

post(path, json_body) ==
    [method |-> "POST", path |-> path, params |-> None,
     json_body |-> json_body, is_write |-> TRUE]

delete(path) ==
    [method |-> "DELETE", path |-> path, params |-> None, json_body |-> None,
     is_write |-> TRUE]

HelperCalls ==
    { get(p, q) : p \in HttpPaths, q \in HttpParams }
        \cup { post(p, b) : p \in HttpPaths, b \in HttpBodies }
        \cup { delete(p) : p \in HttpPaths }

\* Lines 73-76: the limiters acquired, in order; both limiters are set.
acquisitions(call) ==
    (IF call.is_write THEN <<[event |-> "acquire", bucket |-> "write_rl",
                              tokens |-> 1]>> ELSE <<>>)
    \o (IF ~call.is_write THEN <<[event |-> "acquire", bucket |-> "read_rl",
                                  tokens |-> 1]>> ELSE <<>>)

\* Lines 79-89: the arguments of requests.request.
http_request(signer, call, ts_ms, salt) ==
    [event |-> "request",
     method |-> call.method,
     url |-> Host \o call.path,
     path |-> call.path,
     params |-> call.params,
     json |-> call.json_body,
     headers |-> headers_of(signer, call.method, call.path, call.params,
                            ts_ms, salt)]

\* Lines 90-96.
outcome(call, resp) ==
    IF ~ResponseOk(resp)
    THEN [raised |-> TRUE,
          error |-> KalshiHTTPError(<<call.method, " ">> \o call.path
                        \o <<" failed: ", ToString(resp.status_code), " ">>
                        \o resp.text)]
    ELSE IF ResponseJson(resp).raised
         THEN [raised |-> TRUE,
               error |-> KalshiHTTPError(<<"Non-JSON response: ">> \o resp.text)]
         ELSE [raised |-> FALSE, value |-> ResponseJson(resp).value]

\* The client as run.py lines 22-34 build it.
InitHttp ==
    /\ http_signer = ApiKeyId
    /\ http_call = None
    /\ http_pc = "idle"
    /\ http_events = <<>>
    /\ http_prev = None
    /\ http_result = None
    /\ ExecutorIdle /\ FeesIdle /\ BookIdle /\ StrategyIdle /\ LimiterIdle
    /\ NotHttpIdle

\* KalshiAPI calls get, post or delete.
CallHelper(call) ==
    /\ http_pc = "idle"
    /\ http_call' = call
    /\ http_pc' = "acquire"
    /\ http_events' = <<>>
    /\ http_result' = None
    /\ UNCHANGED <<http_signer, http_prev>>
    /\ UNCHANGED <<executor_vars, fee_vars, book_vars, strategy_vars, limiter_vars>>
    /\ UNCHANGED not_http_vars

\* Lines 73-76, up to the return of the blocking acquire.
AcquireToken ==
    /\ http_pc = "acquire"
    /\ http_events' = http_events \o acquisitions(http_call)
    /\ http_pc' = "send"
    /\ UNCHANGED <<http_signer, http_call, http_prev, http_result>>
    /\ UNCHANGED <<executor_vars, fee_vars, book_vars, strategy_vars, limiter_vars>>
    /\ UNCHANGED not_http_vars

\* Lines 78-96: sign, issue the request and read the response.
SendRequest(ts_ms, salt, resp) ==
    /\ http_pc = "send"
    /\ http_events' = http_events
                        \o <<http_request(http_signer, http_call, ts_ms, salt),
                             [event |-> "response", resp |-> resp]>>
    /\ http_result' = outcome(http_call, resp)
    /\ http_pc' = "done"
    /\ UNCHANGED <<http_signer, http_call, http_prev>>
    /\ UNCHANGED <<executor_vars, fee_vars, book_vars, strategy_vars, limiter_vars>>
    /\ UNCHANGED not_http_vars

\* The caller has the result or the exception.
RequestReturn ==
    /\ http_pc = "done"
    /\ http_pc' = "idle"
    /\ http_prev' = http_events[Len(http_events) - 1]
    /\ UNCHANGED <<http_signer, http_call, http_events, http_result>>
    /\ UNCHANGED <<executor_vars, fee_vars, book_vars, strategy_vars, limiter_vars>>
    /\ UNCHANGED not_http_vars

NextHttp ==
    \/ \E call \in HelperCalls : CallHelper(call)
    \/ AcquireToken
    \/ \E ts_ms \in Timestamps, salt \in Salts, resp \in Responses :
          SendRequest(ts_ms, salt, resp)
    \/ RequestReturn

SpecHttp == InitHttp /\ [][NextHttp]_vars

\* The request events and the acquire events of the running call.
RequestsIssued == SelectSeq(http_events, LAMBDA e : e.event = "request")

TokensAcquired == SelectSeq(http_events, LAMBDA e : e.event = "acquire")

BucketOfClass(method) == IF method = "GET" THEN "read_rl" ELSE "write_rl"

ResponsesRead == SelectSeq(http_events, LAMBDA e : e.event = "response")

Is2xx(status_code) == 200 <= status_code /\ status_code < 300

\* C21: request acquires exactly one token from the bucket of its request
\* class (read for GET, write for POST and DELETE) before issuing the
\* request, issues exactly one HTTP request per call, and on a non-2xx
\* status or a non-JSON body raises KalshiHTTPError without any retry.
C21_OneTokenOneRequestHardFailure ==
    http_pc = "done" =>
        /\ Len(http_events) = 3
        /\ http_events[1] = [event |-> "acquire",
                             bucket |-> BucketOfClass(http_call.method),
                             tokens |-> 1]
        /\ http_events[2].event = "request"
        /\ http_events[3].event = "response"
        /\ LET resp == http_events[3].resp
           IN  (~Is2xx(resp.status_code) \/ ResponseJson(resp).raised)
                  => /\ http_result.raised
                     /\ http_result.error.type = "KalshiHTTPError"

\* The message signed for a request, rebuilt from what went on the wire.
WireMessage(req) ==
    <<req.headers[1].timestamp[1], Upper(req.method)>> \o req.path

\* C22: the signed message is exactly timestamp + upper-cased method + path
\* and never contains the query parameters; two requests that differ only in
\* their query parameters sign the same message; the timestamp header equals
\* the timestamp inside the signed message.
C22_SignedMessageExcludesQuery ==
    \A k \in 1..Len(RequestsIssued) :
        LET req == RequestsIssued[k]
            msg == req.headers[1].signature.message
        IN  /\ req.headers # <<>>
            /\ msg = WireMessage(req)
            /\ req.headers[1].timestamp = <<msg[1]>>
            /\ \A j \in 1..Len(msg) : msg[j] # "?"
            /\ (/\ http_prev # None
                /\ http_prev.headers[1].timestamp = req.headers[1].timestamp
                /\ http_prev.method = req.method
                /\ http_prev.path = req.path)
                  => http_prev.headers[1].signature.message = msg

\* Two GETs of the same path at the same millisecond, one with a query.
C22_Witness ==
    /\ Len(RequestsIssued) = 1
    /\ http_prev # None
    /\ http_prev.headers[1].timestamp = RequestsIssued[1].headers[1].timestamp
    /\ http_prev.method = RequestsIssued[1].method
    /\ http_prev.path = RequestsIssued[1].path
    /\ http_prev.params = None
    /\ RequestsIssued[1].params # None

-----------------------------------------------------------------------------
(* fair_prob.py: LiveDataWinProbProvider                                   *)
(*                                                                         *)
(* A value of a JSON payload whose type the code tests carries its Python  *)
(* type; a dict is a record, a missing key a field the record lacks.       *)
(* Probabilities are in millionths, priors as configured in hundredths.    *)

JNone == [type |-> "NoneType", v |-> 0]
JInt(n) == [type |-> "int", v |-> n]
JStr(s) == [type |-> "str", v |-> s]
JDict(d) == [type |-> "dict", v |-> d]
JList(l) == [type |-> "list", v |-> l]

\* bool(x)
JTruthy(x) ==
    CASE x.type = "NoneType" -> FALSE
      [] x.type = "int" -> x.v # 0
      [] x.type = "str" -> x.v # <<>>
      [] x.type = "dict" -> DOMAIN x.v # {}
      [] OTHER -> x.v # <<>>

\* x or y
JOr(x, y) == IF JTruthy(x) THEN x ELSE y

\* dict.get(key)
JGet(d, key) == DictGet(d, key, JNone)

DigitPieces == {"0", "1", "2", "3", "12", "34"}

PieceInt(piece) ==
    CASE piece = "0" -> 0 [] piece = "1" -> 1 [] piece = "2" -> 2
      [] piece = "3" -> 3 [] piece = "12" -> 12 [] piece = "34" -> 34

\* str.isdigit of a piece of a string
IsDigit(piece) == piece \in DigitPieces

\* int(x): the integer, or raised for text that is no number and for
\* dicts, lists and None.
IntOf(x) ==
    IF x.type = "int"
    THEN [raised |-> FALSE, value |-> x.v]
    ELSE IF x.type = "str"
         THEN IF Len(x.v) = 1 /\ IsDigit(x.v[1])
              THEN [raised |-> FALSE, value |-> PieceInt(x.v[1])]
              ELSE [raised |-> TRUE, error |-> "ValueError"]
         ELSE [raised |-> TRUE, error |-> "TypeError"]

\* Lines 37-58; str.split(":") cuts at the ":" pieces.
parse_clock_to_seconds(clock) ==
    CASE clock.type = "NoneType" -> JNone
      [] clock.type = "int" -> JInt(clock.v)
      [] clock.type = "dict" ->
            LET m == JGet(clock.v, "minutes")
                sec == JGet(clock.v, "seconds")
            IN  IF m.type = "int" /\ sec.type = "int"
                THEN JInt(m.v * 60 + sec.v)
                ELSE JNone
      [] clock.type = "str" ->
            IF /\ Len(clock.v) = 3
               /\ clock.v[2] = ":"
               /\ IsDigit(clock.v[1])
               /\ IsDigit(clock.v[3])
            THEN JInt(PieceInt(clock.v[1]) * 60 + PieceInt(clock.v[3]))
            ELSE JNone
      [] OTHER -> JNone

\* a in b, for strings
IsSubstring(a, b) ==
    \E k \in 0..(Len(b) - Len(a)) : SubSeq(b, k + 1, k + Len(a)) = a

\* Lines 115-118; name.lower() raises on a dict.
match(hint, name) ==
    IF ~JTruthy(hint) \/ ~JTruthy(name)
    THEN [raised |-> FALSE, value |-> FALSE]
    ELSE IF name.type # "str"
         THEN [raised |-> TRUE, error |-> "AttributeError"]
         ELSE [raised |-> FALSE,
               value |-> \/ IsSubstring(LowerStr(hint.v), LowerStr(name.v))
                         \/ IsSubstring(LowerStr(name.v), LowerStr(hint.v))]

Scores(score_yes, score_no) ==
    [raised |-> FALSE, score_yes |-> score_yes, score_no |-> score_no]

NoScores == Scores(JNone, JNone)

DirectKeys ==
    <<<<"yes_score", "no_score">>, <<"yesScore", "noScore">>,
      <<"team_yes_score", "team_no_score">>>>

HomeAwayKeys ==
    <<<<"home_score", "away_score">>, <<"homeScore", "awayScore">>,
      <<"homePoints", "awayPoints">>, <<"home", "away">>>>

\* Lines 89-92 and 94-97: the score of one side.
side_score(x) ==
    IF x.type = "dict" /\ "score" \in DOMAIN x.v
    THEN IntOf(x.v["score"])
    ELSE IntOf(x)

\* Lines 67-76, from the k-th pair of keys on: the first pair present whose
\* values both convert.
RECURSIVE direct_scores(_, _)
direct_scores(details, k) ==
    IF k > Len(DirectKeys)
    THEN <<>>
    ELSE LET ys == DirectKeys[k][1]
             ns == DirectKeys[k][2]
         IN  IF /\ ys \in DOMAIN details
                /\ ns \in DOMAIN details
                /\ ~IntOf(details[ys]).raised
                /\ ~IntOf(details[ns]).raised
             THEN <<IntOf(details[ys]).value, IntOf(details[ns]).value>>
             ELSE direct_scores(details, k + 1)

\* Lines 79-100: home_score and away_score after the loop.  A pair whose
\* home value converts and whose away value does not leaves home_score set.
RECURSIVE home_away_scores(_, _, _)
home_away_scores(details, k, found) ==
    IF k > Len(HomeAwayKeys)
    THEN found
    ELSE LET hk == HomeAwayKeys[k][1]
             ak == HomeAwayKeys[k][2]
         IN  IF hk \in DOMAIN details /\ ak \in DOMAIN details
             THEN LET h == side_score(details[hk])
                      a == side_score(details[ak])
                  IN  IF h.raised
                      THEN home_away_scores(details, k + 1, found)
                      ELSE IF a.raised
                           THEN home_away_scores(details, k + 1,
                                    [found EXCEPT !.home = JInt(h.value)])
                           ELSE [home |-> JInt(h.value), away |-> JInt(a.value)]
             ELSE home_away_scores(details, k + 1, found)

\* Lines 104-108 and 109-113: the conditional expression binds weaker than
\* `or`, so the name is None unless details[side] is a dict.
team_name(details, side, key_snake, key_camel) ==
    IF JGet(details, side).type = "dict"
    THEN JOr(JGet(details, key_snake),
             JOr(JGet(details, key_camel),
                 JGet(JOr(JGet(details, side), JDict(<<>>)).v, "name")))
    ELSE JNone

\* Lines 61-125.
extract_team_scores(details, yes_hint, no_hint) ==
    IF direct_scores(details, 1) # <<>>
    THEN Scores(JInt(direct_scores(details, 1)[1]),
                JInt(direct_scores(details, 1)[2]))
    ELSE LET ha == home_away_scores(details, 1, [home |-> JNone, away |-> JNone])
         IN  IF ha.home.type = "NoneType" \/ ha.away.type = "NoneType"
             THEN NoScores
             ELSE LET home_name == team_name(details, "home", "home_team", "homeTeam")
                      away_name == team_name(details, "away", "away_team", "awayTeam")
                      m1 == match(yes_hint, home_name)
                      m2 == match(yes_hint, JGet(details, "home"))
                      m3 == match(yes_hint, away_name)
                      m4 == match(yes_hint, JGet(details, "away"))
                  IN  IF m1.raised THEN m1
                      ELSE IF m1.value THEN Scores(ha.home, ha.away)
                      ELSE IF m2.raised THEN m2
                      ELSE IF m2.value THEN Scores(ha.home, ha.away)
                      ELSE IF m3.raised THEN m3
                      ELSE IF m3.value THEN Scores(ha.away, ha.home)
                      ELSE IF m4.raised THEN m4
                      ELSE IF m4.value THEN Scores(ha.away, ha.home)
                      ELSE NoScores

MaxEstimates == 2

JFloat(hundredths) == [type |-> "float", v |-> hundredths]

\* fair_probs_yes; "UNK" has no prior.
LivePriors == [MKT |-> JFloat(50), ALT |-> JFloat(130)]

LiveTickers == {"MKT", "ALT", "UNK"}

\* float(x)
FloatOf(x) ==
    IF x.type = "float"
    THEN [raised |-> FALSE, value |-> x.v]
    ELSE IF x.type = "str"
         THEN [raised |-> TRUE, error |-> "ValueError"]
         ELSE [raised |-> TRUE, error |-> "TypeError"]

Returns(value) == [raised |-> FALSE, value |-> value]

\* max(0.0, min(1.0, float(prior))), in millionths
clamped_prior(prior) ==
    IF FloatOf(prior).raised
    THEN FloatOf(prior)
    ELSE Returns(Some(Max2(0, Min2(1000000, FloatOf(prior).value * 10000))))

\* Lines 224-234 with the default coefficients, as the doubles give it:
\* sigmoid(logit(prior) + 0.12 * diff - 0.03 * t_left / 60) in millionths,
\* or the OverflowError of math.exp.
win_prob(prior, diff, t_left) ==
    CASE t_left >= 2000000000 -> [raised |-> TRUE, error |-> "OverflowError"]
      [] prior = 50 /\ diff = 2 /\ t_left = 0 -> Returns(Some(559714))
      [] prior = 50 /\ diff = 2 /\ t_left = 754 -> Returns(Some(465803))
      [] prior = 50 /\ diff = 0 /\ t_left = 0 -> Returns(Some(500000))
      [] prior = 50 /\ diff = 0 /\ t_left = 754 -> Returns(Some(406851))
      [] prior = 50 /\ diff = 0 - 2 /\ t_left = 0 -> Returns(Some(440286))
      [] prior = 50 /\ diff = 0 - 2 /\ t_left = 754 -> Returns(Some(350464))
      [] prior = 130 /\ diff = 0 - 2 /\ t_left = 754 -> Returns(Some(999998))
      [] prior = 130 /\ t_left < 2000000000 -> Returns(Some(999999))

TeamsTitle == JStr(<<"Lakers", " vs ", "Celtics">>)

EventTicker == JStr(<<"EV">>)

MarketResponses ==
    {[raised |-> TRUE, error |-> "KalshiHTTPError"],
     Returns([market |-> [event_ticker |-> EventTicker,
                          yes_sub_title |-> JStr(<<"Lakers">>),
                          no_sub_title |-> JStr(<<"Celtics">>)]]),
     Returns([event_ticker |-> EventTicker, title |-> TeamsTitle]),
     Returns([market |-> [title |-> TeamsTitle]])}

Milestone0 == [id |-> JStr(<<"m0">>), category |-> JStr(<<"Sports">>)]

Milestone1 ==
    [id |-> JStr(<<"m1">>), type |-> JStr(<<"basketball_game">>),
     primary_event_tickers |-> <<EventTicker.v>>]

MilestoneResponses ==
    {[raised |-> TRUE, error |-> "KalshiHTTPError"],
     Returns([milestones |-> <<>>]),
     Returns([cursor |-> JStr(<<>>)]),
     Returns([milestones |-> <<Milestone1>>]),
     Returns([milestones |-> <<Milestone0, Milestone1>>]),
     Returns([milestones |-> <<Milestone0>>]),
     Returns([milestones |-> <<[type |-> JStr(<<"basketball_game">>)]>>])}

Clock1234 == JStr(<<"12", ":", "34">>)

LiveDetails ==
    {[yes_score |-> JInt(3), no_score |-> JInt(1), time_remaining |-> Clock1234],
     [yes_score |-> JInt(3), no_score |-> JInt(1)],
     [yesScore |-> JStr(<<"1">>), noScore |-> JStr(<<"3">>),
      clock |-> JStr(<<"Q3">>)],
     [clock |-> Clock1234],
     [yes_score |-> JStr(<<"n/a">>), no_score |-> JInt(1), clock |-> JInt(754)],
     [home |-> JDict([score |-> JInt(3), name |-> JStr(<<"Lakers">>)]),
      away |-> JDict([score |-> JInt(1), name |-> JStr(<<"Celtics">>)]),
      game |-> JDict([clock |-> JDict([minutes |-> JInt(12),
                                       seconds |-> JInt(34)])])],
     [home |-> JDict([score |-> JInt(1), name |-> JStr(<<"Knicks">>)]),
      away |-> JDict([score |-> JInt(3), name |-> JStr(<<"Lakers">>)])],
     [home_score |-> JInt(3), away_score |-> JInt(1),
      home_team |-> JStr(<<"Lakers">>), away_team |-> JStr(<<"Celtics">>),
      timeRemaining |-> JInt(754)],
     [yes_score |-> JInt(1), no_score |-> JInt(1), time_remaining |-> JInt(0)],
     [yes_score |-> JInt(3), no_score |-> JInt(1), clock |-> JInt(2000000000)]}

LiveResponses ==
    {[raised |-> TRUE, error |-> "KalshiHTTPError"]}
        \cup { Returns(JDict([live_data |-> JDict([details |-> JDict(d)])])) :
                d \in LiveDetails }
        \cup {Returns(JDict([details |-> JDict([yes_score |-> JInt(3),
                                               no_score |-> JInt(1)])])),
              Returns(JDict([live_data |-> JDict([details |-> JNone])])),
              Returns(JDict([live_data |-> JDict([details |-> JList(<<1>>)])])),
              Returns(JDict([live_data |-> JList(<<1>>)])),
              Returns(JList(<<1>>))}

\* dict.get(key, default) on a value that may not be a dict
JGetOr(x, key, default) ==
    IF x.type # "dict"
    THEN [raised |-> TRUE, error |-> "AttributeError"]
    ELSE Returns(DictGet(x.v, key, default))

\* Line 194
prior_of(ticker) == DictGet(LivePriors, ticker, JNone)

\* Lines 217-222
time_left(details) ==
    JOr(parse_clock_to_seconds(JGet(details, "time_remaining")),
        JOr(parse_clock_to_seconds(JGet(details, "clock")),
            JOr(parse_clock_to_seconds(JGet(details, "timeRemaining")),
                parse_clock_to_seconds(
                    IF JGet(details, "game").type = "dict"
                    THEN JGet(JOr(JGet(details, "game"), JDict(<<>>)).v, "clock")
                    ELSE JNone))))

\* Lines 205-234, inside the try.
live_estimate(prior, hints, live) ==
    LET data == JGetOr(live, "live_data", live)
    IN  IF data.raised THEN data
        ELSE
        LET got == JGetOr(data.value, "details", JNone)
        IN  IF got.raised THEN got
            ELSE
            LET details == JOr(got.value, JDict(<<>>))
            IN  IF details.type # "dict" THEN clamped_prior(prior)
                ELSE
                LET scores == extract_team_scores(details.v, hints[1], hints[2])
                IN  IF scores.raised THEN scores
                    ELSE IF \/ scores.score_yes.type = "NoneType"
                            \/ scores.score_no.type = "NoneType"
                         THEN clamped_prior(prior)
                         ELSE
                         LET t_left == time_left(details.v)
                             diff == scores.score_yes.v - scores.score_no.v
                         IN  IF FloatOf(prior).raised
                             THEN FloatOf(prior)
                             ELSE win_prob(FloatOf(prior).value, diff,
                                           IF t_left.type = "int"
                                           THEN t_left.v ELSE 0)

\* Lines 203-236: the try and its handler.
estimate_or_prior(prior, hints, resp) ==
    IF resp.raised
    THEN clamped_prior(prior)
    ELSE IF live_estimate(prior, hints, resp.value).raised
         THEN clamped_prior(prior)
         ELSE live_estimate(prior, hints, resp.value)

\* Lines 163-166
market_of(mkt) == DictGet(mkt, "market", mkt)

hints_of(market) ==
    <<JOr(JGet(market, "yes_sub_title"),
          JOr(JGet(market, "subtitle"), JGet(market, "title"))),
      JOr(JGet(market, "no_sub_title"), JGet(market, "subtitle"))>>

\* Lines 177-183
RECURSIVE first_primary(_, _, _)
first_primary(milestones, event_ticker, k) ==
    IF k > Len(milestones)
    THEN milestones[1]
    ELSE IF \E j \in 1..Len(DictGet(milestones[k], "primary_event_tickers", <<>>)) :
                milestones[k].primary_event_tickers[j] = event_ticker.v
         THEN milestones[k]
         ELSE first_primary(milestones, event_ticker, k + 1)

\* Lines 184-188: the cache entry, or None without an id.
entry_of(chosen) ==
    IF ~JTruthy(JGet(chosen, "id"))
    THEN None
    ELSE <<JGet(chosen, "id").v,
           JOr(JGet(chosen, "type"),
               JOr(JGet(chosen, "category"), JStr(<<"sports">>))).v>>

LogEvent(op, ticker, data) == [op |-> op, ticker |-> ticker, data |-> data]

EstimatesAsked == Len(SelectSeq(live_log, LAMBDA e : e.op = "get_fair_prob_yes"))

\* __post_init__, lines 154-156
InitLive ==
    /\ live_cache = <<>>
    /\ live_hints = <<>>
    /\ live_pc = "idle"
    /\ live_ticker = None
    /\ live_event = None
    /\ live_log = <<>>
    /\ live_result = None
    /\ ExecutorIdle /\ FeesIdle /\ BookIdle /\ StrategyIdle /\ LimiterIdle
    /\ NotLiveIdle

\* Lines 193-196 and 198, 159-160: a strategy asks for an estimate.
CallFairProb(ticker) ==
    /\ live_pc = "idle"
    /\ EstimatesAsked < MaxEstimates
    /\ live_ticker' = <<ticker>>
    /\ live_log' = Append(live_log, LogEvent("get_fair_prob_yes", ticker, None))
    /\ IF prior_of(ticker).type = "NoneType"
       THEN /\ live_result' = <<Returns(None)>>
            /\ live_pc' = "done"
       ELSE /\ live_result' = None
            /\ live_pc' = IF ticker \in DOMAIN live_cache THEN "live" ELSE "market"
    /\ UNCHANGED <<live_cache, live_hints, live_event>>
    /\ UNCHANGED <<executor_vars, fee_vars, book_vars, strategy_vars, limiter_vars>>
    /\ UNCHANGED not_live_vars

\* Lines 162-169, 190-191 and 199-200.
GetMarket(resp) ==
    /\ live_pc = "market"
    /\ live_log' = Append(live_log, LogEvent("get_market", live_ticker[1], None))
    /\ IF resp.raised
       THEN /\ live_result' = <<clamped_prior(prior_of(live_ticker[1]))>>
            /\ live_pc' = "done"
            /\ UNCHANGED <<live_hints, live_event>>
       ELSE LET market == market_of(resp.value)
                event_ticker == JGet(market, "event_ticker")
            IN  /\ live_hints' = (live_ticker[1] :> hints_of(market)) @@ live_hints
                /\ IF ~JTruthy(event_ticker)
                   THEN /\ live_result' = <<clamped_prior(prior_of(live_ticker[1]))>>
                        /\ live_pc' = "done"
                        /\ UNCHANGED live_event
                   ELSE /\ live_event' = <<event_ticker>>
                        /\ live_pc' = "milestones"
                        /\ UNCHANGED live_result
    /\ UNCHANGED <<live_cache, live_ticker>>
    /\ UNCHANGED <<executor_vars, fee_vars, book_vars, strategy_vars, limiter_vars>>
    /\ UNCHANGED not_live_vars

\* Lines 172-191 and 199-200.
GetMilestones(resp) ==
    /\ live_pc = "milestones"
    /\ live_event' = None
    /\ LET asked == Append(live_log, LogEvent("get_milestones", live_ticker[1], None))
           milestones == IF resp.raised THEN <<>>
                         ELSE DictGet(resp.value, "milestones", <<>>)
           entry == IF milestones = <<>> THEN None
                    ELSE entry_of(first_primary(milestones, live_event[1], 1))
       IN  IF entry = None
           THEN /\ live_result' = <<clamped_prior(prior_of(live_ticker[1]))>>
                /\ live_pc' = "done"
                /\ live_log' = asked
                /\ UNCHANGED live_cache
           ELSE /\ live_cache' = (live_ticker[1] :> entry) @@ live_cache
                /\ live_log' = Append(asked, LogEvent("store", live_ticker[1], entry))
                /\ live_pc' = "live"
                /\ UNCHANGED live_result
    /\ UNCHANGED <<live_hints, live_ticker>>
    /\ UNCHANGED <<executor_vars, fee_vars, book_vars, strategy_vars, limiter_vars>>
    /\ UNCHANGED not_live_vars

\* Lines 202-236.
GetLiveData(resp) ==
    /\ live_pc = "live"
    /\ live_log' = Append(live_log, LogEvent("get_live_data", live_ticker[1], <<resp>>))
    /\ live_result' =
          <<estimate_or_prior(prior_of(live_ticker[1]),
                      DictGet(live_hints, live_ticker[1], <<JNone, JNone>>),
                      resp)>>
    /\ live_pc' = "done"
    /\ UNCHANGED <<live_cache, live_hints, live_ticker, live_event>>
    /\ UNCHANGED <<executor_vars, fee_vars, book_vars, strategy_vars, limiter_vars>>
    /\ UNCHANGED not_live_vars

\* The strategy has the estimate.
FairProbReturn ==
    /\ live_pc = "done"
    /\ live_pc' = "idle"
    /\ UNCHANGED <<live_cache, live_hints, live_ticker, live_event, live_log,
                   live_result>>
    /\ UNCHANGED <<executor_vars, fee_vars, book_vars, strategy_vars, limiter_vars>>
    /\ UNCHANGED not_live_vars

NextLive ==
    \/ \E ticker \in LiveTickers : CallFairProb(ticker)
    \/ \E resp \in MarketResponses : GetMarket(resp)
    \/ \E resp \in MilestoneResponses : GetMilestones(resp)
    \/ \E resp \in LiveResponses : GetLiveData(resp)
    \/ FairProbReturn

SpecLive == InitLive /\ [][NextLive]_vars

\* The running call: its ticker, its prior and the events it logged.
LiveCallStart ==
    CHOOSE k \in 1..Len(live_log) :
        /\ live_log[k].op = "get_fair_prob_yes"
        /\ \A j \in (k + 1)..Len(live_log) : live_log[j].op # "get_fair_prob_yes"

LiveCallEvents == SubSeq(live_log, LiveCallStart + 1, Len(live_log))

LiveCallOps == [k \in 1..Len(LiveCallEvents) |-> LiveCallEvents[k].op]

ClaimedPrior(ticker) ==
    IF LivePriors[ticker].v < 0 THEN 0
    ELSE IF LivePriors[ticker].v > 100 THEN 1000000
    ELSE LivePriors[ticker].v * 10000

ScoreFields ==
    {"yes_score", "no_score", "yesScore", "noScore", "team_yes_score",
     "team_no_score", "home_score", "away_score", "homeScore", "awayScore",
     "homePoints", "awayPoints", "home", "away"}

ClockFields == {"time_remaining", "clock", "timeRemaining", "game"}

\* The details of a live-data response, or None when the call failed or the
\* payload has no details dict.
DetailsOf(resp) ==
    IF resp.raised \/ resp.value.type # "dict"
    THEN None
    ELSE LET data == DictGet(resp.value.v, "live_data", resp.value)
         IN  IF data.type # "dict" \/ "details" \notin DOMAIN data.v
             THEN None
             ELSE IF data.v.details.type # "dict"
                  THEN None
                  ELSE <<data.v.details.v>>

\* C23: for a market with a configured prior get_fair_prob_yes never raises
\* and returns a value in [0,1]; when the metadata lookup fails, the
\* live-data call or its parsing fails, or the payload has no score field or
\* no clock field, it returns exactly the prior clamped to [0,1]; for a
\* market with no configured prior it returns None.
C23_FallsBackToClampedPrior ==
    live_pc = "done" =>
        LET ticker == live_ticker[1]
            r == live_result[1]
        IN  IF ticker \notin DOMAIN LivePriors
            THEN r = Returns(None)
            ELSE /\ ~r.raised
                 /\ r.value # None
                 /\ 0 <= r.value[1] /\ r.value[1] <= 1000000
                 /\ (\A k \in 1..Len(LiveCallOps) : LiveCallOps[k] # "get_live_data")
                       => r.value[1] = ClaimedPrior(ticker)
                 /\ \A k \in 1..Len(LiveCallEvents) :
                       LiveCallEvents[k].op = "get_live_data" =>
                          LET details == DetailsOf(LiveCallEvents[k].data[1])
                          IN  (\/ details = None
                               \/ DOMAIN details[1] \cap ScoreFields = {}
                               \/ DOMAIN details[1] \cap ClockFields = {})
                                 => r.value[1] = ClaimedPrior(ticker)

OpsFor(ticker, op) ==
    SelectSeq(live_log, LAMBDA e : e.op = op /\ e.ticker = ticker)

\* C24: for each market, get_market and get_milestones are called at most
\* once in the life of the provider, however many estimates are asked; an
\* entry of the cache, once stored, is never changed or removed, and later
\* estimates use it without a new metadata lookup.
C24_MetadataLookedUpOnce ==
    \A ticker \in LiveTickers :
        /\ Len(OpsFor(ticker, "get_market")) <= 1
        /\ Len(OpsFor(ticker, "get_milestones")) <= 1
        /\ Len(OpsFor(ticker, "store")) <= 1
        /\ \A k \in 1..Len(live_log) :
              (live_log[k].op = "store" /\ live_log[k].ticker = ticker) =>
                  /\ ticker \in DOMAIN live_cache
                  /\ live_cache[ticker] = live_log[k].data
                  /\ \A j \in (k + 1)..Len(live_log) :
                        live_log[j].ticker = ticker =>
                            live_log[j].op \in {"get_fair_prob_yes", "get_live_data"}

-----------------------------------------------------------------------------
(* strategy.py, models.py, execution.py: the maker-only flag of a proposal *)

\* C25: a proposal created by the decision engine carries a maker-only flag
\* equal to the engine's configured maker-only setting (and the executor
\* sends it as post_only with ticker, side, action, count and price
\* unchanged).  For every candidate FeeAwareFairValueStrategy decides to
\* propose, the proposal exists, has the candidate's ticker, side, count and
\* price, and its post_only equals cfg.post_only.
C25_ProposalCarriesMakerOnlyFlag ==
    strategy = "fee_aware" =>
        \A q \in 1..Len(gen_cands) :
            gen_cands[q].qualifies =>
                \E n \in IntentsFrom(gen_cands[q].snap) :
                    /\ gen_intents[n].ticker = snaps[gen_cands[q].snap].ticker
                    /\ gen_intents[n].side = gen_cands[q].side
                    /\ gen_intents[n].action = "buy"
                    /\ gen_intents[n].count = cfg.order_count
                    /\ gen_intents[n].price_cents = gen_cands[q].px
                    /\ HasAttr(gen_intents[n], "post_only")
                    /\ gen_intents[n].post_only = cfg.post_only

-----------------------------------------------------------------------------
(* risk.py: the position the gate works with *)

\* C26: the current position the gate uses for a market is the absolute
\* value of the sum, over all returned entries, of the entry's 'position'
\* (or its 'count' when 'position' is absent), legs not distinguished; the
\* projected position compared with max_position_per_ticker is that value
\* plus the proposal's count.
C26_PositionIsAbsOfSum ==
    (LastReturned /\ last_resp.ok /\ CountOk(intents[Len(verdicts)])) =>
        LET it == intents[Len(verdicts)]
            v == verdicts[Len(verdicts)]
            position == IF LookedUpPosition < 0 THEN 0 - LookedUpPosition
                        ELSE LookedUpPosition
            projected == position + it.count
            over == /\ v.kind = "rejected"
                    /\ Head(v.reason) = "projected_position("
        IN  /\ over <=> projected > max_position_per_ticker
            /\ over => v.reason = <<"projected_position(">> \o Str(projected)
                                      \o <<")>">> \o Str(max_position_per_ticker)

\* Two opposite legs that cancel: a proposal of max_order_count contracts
\* passes the position check.
C26_Witness ==
    /\ LastReturned
    /\ last_resp.ok
    /\ Len(last_resp.positions) = 2
    /\ HasAttr(last_resp.positions[1], "position")
    /\ last_resp.positions[1].position > 0
    /\ last_resp.positions[2].position < 0
    /\ intents[Len(verdicts)].count = max_order_count
    /\ verdicts[Len(verdicts)].kind = "approved"

(***************************************************************************)
(* MultiStrategyManager (multi_strategy.py): generate runs every strategy  *)
(* of enabled_strategies, truncates and tags what each returns, and merges *)
(* the proposals that share a key.  A strategy is modelled by what its     *)
(* generate does on the snapshots of the call: the list it returns or the  *)
(* exception it raises.                                                    *)
(***************************************************************************)

\* models.py line 8: OrderIntent is declared @dataclass(frozen=True), so an
\* assignment to a field of an instance raises FrozenInstanceError.
OrderIntentFrozen == TRUE

FrozenInstanceError(field) ==
    [raised |-> TRUE,
     error |-> <<"FrozenInstanceError: cannot assign to field '", field, "'">>]

\* OrderIntent(ticker, side, action, count, price_cents, reason); the
\* client_order_id keeps its default.
MsIntent(side, count, price_cents) ==
    [ticker |-> "MKT", side |-> side, action |-> "buy", count |-> count,
     price_cents |-> price_cents, reason |-> <<"edge">>,
     client_order_id |-> None]

\* What strategy.generate(snaps) does: raise, or return a list in which
\* proposals may share their (ticker, side, action, price_cents).
StrategyOutputs ==
    { [raised |-> TRUE, error |-> <<"RuntimeError: boom">>],
      Returns(<<>>),
      Returns(<<MsIntent("yes", 1, 40)>>),
      Returns(<<MsIntent("yes", 2, 40)>>),
      Returns(<<MsIntent("yes", 1, 40), MsIntent("no", 1, 40)>>),
      Returns(<<MsIntent("yes", 1, 40), MsIntent("yes", 2, 40)>>),
      Returns(<<MsIntent("yes", 1, 41), MsIntent("yes", 1, 40),
                MsIntent("no", 1, 40)>>) }

\* StrategyConfig.max_order_count: one that truncates and the default.
StrategyCaps == {1, 5}

StrategyNames == <<"a", "b">>

\* intents[:n]
slice_to(seq, n) ==
    IF n >= 0 THEN SubSeq(seq, 1, Min2(n, Len(seq)))
    ELSE SubSeq(seq, 1, Max2(0, Len(seq) + n))

\* Lines 46-47: the first assignment to intent.reason raises when the
\* intent is frozen; otherwise every intent gets the strategy's name.
tag_intents(intent_list, name) ==
    IF intent_list = <<>> THEN Returns(<<>>)
    ELSE IF OrderIntentFrozen THEN FrozenInstanceError("reason")
    ELSE Returns([k \in 1..Len(intent_list) |->
                    [intent_list[k] EXCEPT !.reason = <<"[", name, "] ">> \o @]])

\* Lines 40-49, the body of the try: all_intents after it, or what it raised.
run_strategy(strategy_config, all_intents) ==
    LET produced == strategy_config.strategy
    IN  IF produced.raised THEN produced
        ELSE LET intent_list == slice_to(produced.value,
                                     strategy_config.max_order_count)
                 tagged == tag_intents(intent_list, strategy_config.name)
             IN  IF tagged.raised THEN tagged
                 ELSE Returns(all_intents \o tagged.value)

\* Line 67
key_of(intent) ==
    <<intent.ticker, intent.side, intent.action, intent.price_cents>>

\* Lines 66-79 from the k-th intent on, `seen` being the keys of `unique`.
RECURSIVE dedup_loop(_, _, _)
dedup_loop(intent_list, k, unique) ==
    IF k > Len(intent_list) THEN Returns(unique)
    ELSE LET intent == intent_list[k]
             seen == {key_of(unique[j]) : j \in 1..Len(unique)}
         IN  IF key_of(intent) \notin seen
             THEN dedup_loop(intent_list, k + 1, Append(unique, intent))
             ELSE IF OrderIntentFrozen THEN FrozenInstanceError("count")
             ELSE LET j == CHOOSE j \in 1..Len(unique) :
                                /\ key_of(unique[j]) = key_of(intent)
                                /\ \A l \in 1..(j - 1) :
                                       key_of(unique[l]) # key_of(intent)
                  IN  dedup_loop(intent_list, k + 1,
                          [unique EXCEPT ![j].count = @ + intent.count])

\* Lines 61-81
deduplicate_intents(intent_list) == dedup_loop(intent_list, 1, <<>>)

\* Lines 27-29: the manager as constructed from a list of StrategyConfig;
\* enabled_strategies refers to the configs that are enabled at that time.
InitMulti ==
    /\ \E outs \in [1..Len(StrategyNames) -> StrategyOutputs],
          flags \in [1..Len(StrategyNames) -> BOOLEAN],
          caps \in [1..Len(StrategyNames) -> StrategyCaps] :
          ms_strategies = [k \in 1..Len(StrategyNames) |->
                              [name |-> StrategyNames[k],
                               strategy |-> outs[k],
                               enabled |-> flags[k],
                               max_order_count |-> caps[k]]]
    /\ ms_enabled = SelectSeq([k \in 1..Len(StrategyNames) |-> k],
                              LAMBDA k : ms_strategies[k].enabled)
    /\ ms_pc = "idle"
    /\ ms_i = 0
    /\ ms_all = <<>>
    /\ ms_log = <<>>
    /\ ms_result = None
    /\ ExecutorIdle /\ FeesIdle /\ BookIdle /\ StrategyIdle /\ LimiterIdle
    /\ NotMultiIdle

\* Lines 83-90: sets the flag of the named config; enabled_strategies is
\* not recomputed.
enable_strategy(name) ==
    /\ ms_pc = "idle"
    /\ \E k \in 1..Len(ms_strategies) :
          /\ ms_strategies[k].name = name
          /\ ms_strategies' = [ms_strategies EXCEPT ![k].enabled = TRUE]
    /\ UNCHANGED <<ms_enabled, ms_pc, ms_i, ms_all, ms_log, ms_result>>
    /\ UNCHANGED <<executor_vars, fee_vars, book_vars, strategy_vars, limiter_vars>>
    /\ UNCHANGED not_multi_vars

\* Lines 92-99
disable_strategy(name) ==
    /\ ms_pc = "idle"
    /\ \E k \in 1..Len(ms_strategies) :
          /\ ms_strategies[k].name = name
          /\ ms_strategies' = [ms_strategies EXCEPT ![k].enabled = FALSE]
    /\ UNCHANGED <<ms_enabled, ms_pc, ms_i, ms_all, ms_log, ms_result>>
    /\ UNCHANGED <<executor_vars, fee_vars, book_vars, strategy_vars, limiter_vars>>
    /\ UNCHANGED not_multi_vars

\* Line 36: generate is called.
CallManagerGenerate ==
    /\ ms_pc = "idle"
    /\ ms_pc' = "loop"
    /\ ms_i' = 1
    /\ ms_all' = <<>>
    /\ ms_log' = <<>>
    /\ ms_result' = None
    /\ UNCHANGED <<ms_strategies, ms_enabled>>
    /\ UNCHANGED <<executor_vars, fee_vars, book_vars, strategy_vars, limiter_vars>>
    /\ UNCHANGED not_multi_vars

\* Lines 38-53: one iteration of the loop over enabled_strategies.
RunStrategy ==
    /\ ms_pc = "loop"
    /\ ms_i <= Len(ms_enabled)
    /\ LET strategy_config == ms_strategies[ms_enabled[ms_i]]
           done == run_strategy(strategy_config, ms_all)
       IN  IF done.raised
           THEN /\ ms_log' = Append(ms_log, [level |-> "error",
                                             name |-> strategy_config.name,
                                             e |-> done.error])
                /\ UNCHANGED ms_all
           ELSE /\ ms_log' = Append(ms_log, [level |-> "debug",
                                             name |-> strategy_config.name,
                                             e |-> None])
                /\ ms_all' = done.value
    /\ ms_i' = ms_i + 1
    /\ UNCHANGED <<ms_strategies, ms_enabled, ms_pc, ms_result>>
    /\ UNCHANGED <<executor_vars, fee_vars, book_vars, strategy_vars, limiter_vars>>
    /\ UNCHANGED not_multi_vars

\* Lines 56-59: after the loop, outside any try.
Deduplicate ==
    /\ ms_pc = "loop"
    /\ ms_i > Len(ms_enabled)
    /\ ms_result' = deduplicate_intents(ms_all)
    /\ ms_pc' = "done"
    /\ UNCHANGED <<ms_strategies, ms_enabled, ms_i, ms_all, ms_log>>
    /\ UNCHANGED <<executor_vars, fee_vars, book_vars, strategy_vars, limiter_vars>>
    /\ UNCHANGED not_multi_vars

\* The caller takes the result.
ManagerReturn ==
    /\ ms_pc = "done"
    /\ ms_pc' = "idle"
    /\ UNCHANGED <<ms_strategies, ms_enabled, ms_i, ms_all, ms_log, ms_result>>
    /\ UNCHANGED <<executor_vars, fee_vars, book_vars, strategy_vars, limiter_vars>>
    /\ UNCHANGED not_multi_vars

NextMulti ==
    \/ \E k \in 1..Len(StrategyNames) : enable_strategy(StrategyNames[k])
    \/ \E k \in 1..Len(StrategyNames) : disable_strategy(StrategyNames[k])
    \/ CallManagerGenerate
    \/ RunStrategy
    \/ Deduplicate
    \/ ManagerReturn

SpecMulti == InitMulti /\ [][NextMulti]_vars

\* What the strategies that generate ran, lines 38-40, produced, each list
\* truncated to its strategy's max_order_count; a strategy whose generate
\* raised produced nothing.
RECURSIVE ProducedFrom(_)
ProducedFrom(k) ==
    IF k > Len(ms_enabled) THEN <<>>
    ELSE LET strategy_config == ms_strategies[ms_enabled[k]]
             produced == strategy_config.strategy
         IN  (IF produced.raised THEN <<>>
              ELSE slice_to(produced.value, strategy_config.max_order_count))
             \o ProducedFrom(k + 1)

CountOfKey(list, key) ==
    SumSeq([k \in 1..Len(list) |->
               IF key_of(list[k]) = key THEN list[k].count ELSE 0])

\* C27: generate returns the proposals of all the strategies it runs, each
\* strategy's list truncated to its max_order_count, merged by
\* (ticker, side, action, price): no two returned proposals share a key,
\* every produced key is returned, and the count of a returned proposal is
\* the sum of the counts produced under its key; a strategy that raises
\* contributes nothing and the others' proposals are still returned.
C27_MergedByKeyWithSummedCounts ==
    ms_pc = "done" =>
        LET produced == ProducedFrom(1)
        IN  /\ ~ms_result.raised
            /\ \A a, b \in 1..Len(ms_result.value) :
                   key_of(ms_result.value[a]) = key_of(ms_result.value[b])
                       => a = b
            /\ \A k \in 1..Len(produced) :
                   \E a \in 1..Len(ms_result.value) :
                       key_of(ms_result.value[a]) = key_of(produced[k])
            /\ \A a \in 1..Len(ms_result.value) :
                   /\ \E k \in 1..Len(produced) :
                          key_of(produced[k]) = key_of(ms_result.value[a])
                   /\ ms_result.value[a].count
                          = CountOfKey(produced, key_of(ms_result.value[a]))

-----------------------------------------------------------------------------
(* The gap between RiskManager.approve and create_limit_order *)

\* The position of the market on the exchange at this moment, as approve
\* would compute it from a successful lookup.
PositionNow ==
    Abs(current_position([ok |-> TRUE, positions |-> exch_positions]).value)

\* The order create_limit_order is given for the approved intent it.
SubmittedAsApproved(call, it, idx) ==
    /\ call.idx = idx
    /\ call.intent = it
    /\ call.body.ticker = it.ticker
    /\ call.body.side = it.side
    /\ call.body.action = it.action
    /\ call.body.count = it.count
    /\ (IF it.side = "yes" THEN call.body.yes_price
        ELSE call.body.no_price) = it.price_cents

\* The live branch runs for intent i.
LiveStep == pc = "live" /\ pc' # "live"

\* C28: for each proposal submitted live, get_positions was called exactly
\* once, by approve and before the submission, and the verdict rests on
\* that answer alone; the live branch does not call it again and submits
\* the order as approved whatever the position on the exchange is by then.
C28_PositionReadOnceBeforeSubmission ==
    /\ [](/\ pc = "live" =>
               /\ lookups[i] = 1
               /\ ApprovedAt(i)
               /\ PositionOk(intents[i], LookedUpPosition)
          /\ \A q \in 1..Len(sent) :
                 /\ lookups[sent[q].idx] = 1
                 /\ ApprovedAt(sent[q].idx)
                 /\ SubmittedAsApproved(sent[q], intents[sent[q].idx],
                                        sent[q].idx))
    /\ [][LiveStep =>
             /\ lookups' = lookups
             /\ last_resp' = last_resp
             /\ exch_positions' = exch_positions
             /\ (HasAttr(intents[i], "post_only")
                     /\ HasAttr(intents[i], "reduce_only"))
                    => /\ Len(sent') = Len(sent) + 1
                       /\ SubmittedAsApproved(sent'[Len(sent')], intents[i], i)
        ]_vars

\* An approved proposal is about to be submitted while the position on the
\* exchange is no longer the one approve saw, and that position plus the
\* order's count is over max_position_per_ticker.
C28_Witness ==
    /\ pc = "live"
    /\ ApprovedAt(i)
    /\ HasAttr(intents[i], "post_only")
    /\ HasAttr(intents[i], "reduce_only")
    /\ last_resp.ok
    /\ last_resp.positions # exch_positions
    /\ PositionOk(intents[i], LookedUpPosition)
    /\ PositionNow + intents[i].count > max_position_per_ticker

(***************************************************************************)
(* The dashboard (webapp/app.py): /api/start and /api/stop and the         *)
(* bot_loop threads they control.  A request handler runs as one step; a   *)
(* bot_loop thread takes a step where it reads bot_components, where it    *)
(* tests bot_state['running'], where it runs a trading cycle and where it  *)
(* wakes from its sleep.                                                   *)
(***************************************************************************)

\* Accepted /api/start requests of a run.
MaxStarts == 3

\* request.get_json(): no body, or an object with or without paper_mode.
StartBodies == {None, [paper_mode |-> TRUE], [paper_mode |-> FALSE]}

\* dict.get(key, default)
dict_get(data, key, default) ==
    IF key \in DOMAIN data THEN data[key] ELSE default

\* Lines 56-117: the components built when nothing raises, the Executor
\* with paper = bot_state['paper_mode'] as it is at that moment.
init_bot_components(state) == [executor |-> [paper |-> state.paper_mode]]

\* Lines 45-52.
InitWeb ==
    /\ bot_state = [running |-> FALSE, paper_mode |-> TRUE]
    /\ bot_components = None
    /\ bot_thread = None
    /\ loops = <<>>
    /\ web_response = None
    /\ ExecutorIdle /\ FeesIdle /\ BookIdle /\ StrategyIdle /\ LimiterIdle
    /\ NotWebIdle

Alive(t) == loops[t].pc # "exited"

\* Lines 206-225.  Each thread also keeps, for the properties, the
\* paper_mode its start call asked for and whether a later start was
\* accepted after it had been stopped.
start_bot(init_ok, body) ==
    /\ Len(loops) < MaxStarts
    /\ IF bot_state.running
       THEN /\ web_response' = 400
            /\ UNCHANGED <<bot_state, bot_components, bot_thread, loops>>
       ELSE IF ~init_ok
       THEN /\ web_response' = 500
            /\ UNCHANGED <<bot_state, bot_components, bot_thread, loops>>
       ELSE LET data == IF body # None THEN body ELSE <<>>
                paper_mode == dict_get(data, "paper_mode", TRUE)
            IN  /\ bot_components' = init_bot_components(bot_state)
                /\ bot_state' = [running |-> TRUE, paper_mode |-> paper_mode]
                /\ loops' = Append([t \in 1..Len(loops) |->
                                      [loops[t] EXCEPT !.superseded =
                                          @ \/ (Alive(t) /\ loops[t].stopped)]],
                                   [pc |-> "created", executor |-> None,
                                    requested |-> paper_mode,
                                    stopped |-> FALSE, superseded |-> FALSE])
                /\ bot_thread' = Len(loops) + 1
                /\ web_response' = 200
    /\ UNCHANGED <<executor_vars, fee_vars, book_vars, strategy_vars, limiter_vars>>
    /\ UNCHANGED not_web_vars

\* Lines 228-233.
stop_bot ==
    /\ bot_state' = [bot_state EXCEPT !.running = FALSE]
    /\ loops' = [t \in 1..Len(loops) |->
                    [loops[t] EXCEPT !.stopped = @ \/ Alive(t)]]
    /\ web_response' = 200
    /\ UNCHANGED <<bot_components, bot_thread>>
    /\ UNCHANGED <<executor_vars, fee_vars, book_vars, strategy_vars, limiter_vars>>
    /\ UNCHANGED not_web_vars

\* Lines 124-135: the thread starts to run and reads bot_components.
LoopEnter(t) ==
    /\ loops[t].pc = "created"
    /\ loops' = [loops EXCEPT ![t] =
                    IF bot_components = None THEN [@ EXCEPT !.pc = "exited"]
                    ELSE [@ EXCEPT !.pc = "while",
                                   !.executor = bot_components.executor]]
    /\ UNCHANGED <<bot_state, bot_components, bot_thread, web_response>>
    /\ UNCHANGED <<executor_vars, fee_vars, book_vars, strategy_vars, limiter_vars>>
    /\ UNCHANGED not_web_vars

\* Line 136: while bot_state['running'].
LoopTest(t) ==
    /\ loops[t].pc = "while"
    /\ loops' = [loops EXCEPT ![t].pc =
                    IF bot_state.running THEN "cycle" ELSE "exited"]
    /\ UNCHANGED <<bot_state, bot_components, bot_thread, web_response>>
    /\ UNCHANGED <<executor_vars, fee_vars, book_vars, strategy_vars, limiter_vars>>
    /\ UNCHANGED not_web_vars

\* Lines 137-182: one trading cycle up to its sleep, of poll_seconds or,
\* after an exception, of five seconds.
LoopCycle(t) ==
    /\ loops[t].pc = "cycle"
    /\ loops' = [loops EXCEPT ![t].pc = "sleep"]
    /\ UNCHANGED <<bot_state, bot_components, bot_thread, web_response>>
    /\ UNCHANGED <<executor_vars, fee_vars, book_vars, strategy_vars, limiter_vars>>
    /\ UNCHANGED not_web_vars

\* time.sleep returns.
LoopWake(t) ==
    /\ loops[t].pc = "sleep"
    /\ loops' = [loops EXCEPT ![t].pc = "while"]
    /\ UNCHANGED <<bot_state, bot_components, bot_thread, web_response>>
    /\ UNCHANGED <<executor_vars, fee_vars, book_vars, strategy_vars, limiter_vars>>
    /\ UNCHANGED not_web_vars

NextWeb ==
    \/ \E init_ok \in BOOLEAN, body \in StartBodies : start_bot(init_ok, body)
    \/ stop_bot
    \/ \E t \in 1..Len(loops) : LoopEnter(t)
    \/ \E t \in 1..Len(loops) : LoopTest(t)
    \/ \E t \in 1..Len(loops) : LoopCycle(t)
    \/ \E t \in 1..Len(loops) : LoopWake(t)

SpecWeb == InitWeb /\ [][NextWeb]_vars

\* The threads that are inside a trading cycle.
InCycle == { t \in 1..Len(loops) : loops[t].pc = "cycle" }

\* The threads that have started to run and have not left bot_loop.
Looping == { t \in 1..Len(loops) : loops[t].pc \in {"while", "cycle", "sleep"} }

\* C29: at most one bot_loop thread runs trading cycles at a time: a start
\* is accepted only when no loop is running, and a loop that was stopped
\* runs no cycle once a later start has launched a new loop.
C29_AtMostOneLoopTrades ==
    /\ Cardinality(InCycle) <= 1
    /\ Cardinality(Looping) <= 1
    /\ \A t \in InCycle : ~loops[t].superseded

\* C30: the Executor that drives a loop started with paper_mode true, given
\* or defaulted, is a paper Executor, whatever starts and stops came before.
C30_PaperStartGetsPaperExecutor ==
    \A t \in 1..Len(loops) :
        (loops[t].executor # None /\ loops[t].requested)
            => loops[t].executor.paper

====
